---- MODULE Spec2Model ----
(***************************************************************************)
(* Model of the SAJE query engine: the JSON path utilities                 *)
(* (src/src/json_utils/jsonplus.py, src/src/jsonpp.py) and the field /     *)
(* database layer (src/src/json_utils/jsondb.py), the search form of an    *)
(* Integer field (src/src/backends/tkinter.py) and the display strings     *)
(* (src/src/parsing.py) with their per-record cache, and the parser of    *)
(* the document (src/src/parsing.py).                                      *)
(*                                                                         *)
(* Python values are encoded as tagged records:                            *)
(*   str  -> [t |-> "str", s |-> <<chars>>]   (a sequence of characters)   *)
(*   int  -> [t |-> "int", i |-> n]                                        *)
(*   dict -> [t |-> "obj", m |-> function from character sequences]        *)
(*   list -> [t |-> "arr", e |-> sequence]    (Python index i is e[i+1])   *)
(* A Python call either returns a value, Ok(v), or raises, Raise(exc).     *)
(***************************************************************************)
EXTENDS Integers, Sequences, FiniteSets, TLC

VARIABLES
    data,     \* Database.data: the list of records (under SpecInteger: the
              \* text left in the entry of the search form)
    fields,   \* Database.fields: ordered mapping name -> field
    pc,       \* position of the caller: "idle" or the operation just run
    args,     \* arguments of the call
    ret       \* what the call returned or raised

vars == <<data, fields, pc, args, ret>>

-----------------------------------------------------------------------------
(* Bounds of the model *)

MaxArrayLen == 2
MaxKeyLen == 2
MaxRecords == 2
\* longest text a Text field is tested on, longest text searched for
MaxTextLen == 3
MaxSubLen == 2
\* number of get_display calls made on one record
MaxCalls == 3

-----------------------------------------------------------------------------
(* Python values and call outcomes *)

JStr(s) == [t |-> "str", s |-> s]
JInt(i) == [t |-> "int", i |-> i]
JObj(m) == [t |-> "obj", m |-> m]
JArr(e) == [t |-> "arr", e |-> e]
JBool(b) == [t |-> "bool", b |-> b]
None == [t |-> "none"]

Ok(v) == [ok |-> TRUE, val |-> v]
Raise(e) == [ok |-> FALSE, exc |-> e, msg |-> ""]
RaiseMsg(e, m) == [ok |-> FALSE, exc |-> e, msg |-> m]

EmptyMap == [k \in {} |-> None]

SeqsUpTo(S, n) == UNION {[1..k -> S] : k \in 0..n}

MapsOver(K, V) == UNION {[D -> V] : D \in SUBSET K}

-----------------------------------------------------------------------------
(* jsonplus.Type *)

\* Type.of: Mapping -> Object, non-str Sequence -> Array, int/str/bool -> Value,
\* anything else (None, float) raises NotAJsonTypeError
TypeOf(json_obj) ==
    IF json_obj.t = "obj" THEN Ok("Object")
    ELSE IF json_obj.t = "arr" THEN Ok("Array")
    ELSE IF json_obj.t \in {"int", "str", "bool"} THEN Ok("Value")
    ELSE Raise("NotAJsonTypeError")

-----------------------------------------------------------------------------
(* Python subscription obj[k] and str.split *)

Subscript(obj, k) ==
    IF obj.t = "obj" THEN
        IF k.t = "str" /\ k.s \in DOMAIN obj.m THEN Ok(obj.m[k.s])
        ELSE Raise("KeyError")
    ELSE IF obj.t = "arr" THEN
        IF k.t # "int" THEN Raise("TypeError")
        ELSE IF k.i >= 0 /\ k.i < Len(obj.e) THEN Ok(obj.e[k.i + 1])
        ELSE IF k.i < 0 /\ -k.i <= Len(obj.e) THEN Ok(obj.e[Len(obj.e) + k.i + 1])
        ELSE Raise("IndexError")
    ELSE IF obj.t = "str" THEN
        IF k.t # "int" THEN Raise("TypeError")
        ELSE IF k.i >= 0 /\ k.i < Len(obj.s) THEN Ok(JStr(<<obj.s[k.i + 1]>>))
        ELSE IF k.i < 0 /\ -k.i <= Len(obj.s) THEN Ok(JStr(<<obj.s[Len(obj.s) + k.i + 1]>>))
        ELSE Raise("IndexError")
    ELSE Raise("TypeError")

RECURSIVE SplitFrom(_, _, _)
SplitFrom(chars, cur, sep) ==
    IF chars = <<>> THEN <<JStr(cur)>>
    ELSE IF Head(chars) = sep THEN <<JStr(cur)>> \o SplitFrom(Tail(chars), <<>>, sep)
    ELSE SplitFrom(Tail(chars), Append(cur, Head(chars)), sep)

\* str.split(sep) for a one-character separator: the list of the pieces
Split(chars, sep) == SplitFrom(chars, <<>>, sep)

\* `if isinstance(key, str): key = key.split(sep)`
KeyList(key, sep) == IF key.t = "str" THEN Split(key.s, sep) ELSE key.e

-----------------------------------------------------------------------------
(* jsonplus.get / jsonplus.has and the older jsonpp.get / jsonpp.has *)

RECURSIVE DescendLoop(_, _)
\* `for k in key[:-1]: obj = obj[k]`
DescendLoop(obj, ks) ==
    IF ks = <<>> THEN Ok(obj)
    ELSE LET r == Subscript(obj, Head(ks))
         IN IF r.ok THEN DescendLoop(r.val, Tail(ks)) ELSE r

jsonplus_get_last(key) == key[1]

jsonplus_get(obj, key0, jtype, sep) ==
    IF jtype # "None" /\ jtype \notin {"Object", "Array", "Value"} THEN Raise("TypeError")
    ELSE LET key == KeyList(key0, sep)
         IN IF Len(key) = 0 THEN Raise("KeyError")
            ELSE LET d == DescendLoop(obj, SubSeq(key, 1, Len(key) - 1))
                 IN IF ~d.ok THEN d
                    ELSE LET v == Subscript(d.val, jsonplus_get_last(key))
                         IN IF ~v.ok THEN v
                            ELSE IF jtype = "None" THEN v
                            ELSE LET ty == TypeOf(v.val)
                                 IN IF ~ty.ok THEN ty
                                    ELSE IF ty.val # jtype THEN Raise("InvalidJsonTypeError")
                                    ELSE v

\* `except KeyError: return False`
jsonplus_has_catches == {"KeyError"}

jsonplus_has(obj, key, jtype, sep) ==
    LET r == jsonplus_get(obj, key, jtype, sep)
    IN IF r.ok THEN Ok(TRUE)
       ELSE IF r.exc \in jsonplus_has_catches THEN Ok(FALSE)
       ELSE r

RECURSIVE jsonpp_get_list(_, _)
jsonpp_get_list(obj, key) ==
    IF Len(key) = 0 THEN Raise("KeyError")
    ELSE IF Len(key) = 1 THEN Subscript(obj, key[1])
    ELSE LET r == Subscript(obj, key[1])
         IN IF r.ok THEN jsonpp_get_list(r.val, Tail(key)) ELSE r

jsonpp_get(obj, key, sep) == jsonpp_get_list(obj, KeyList(key, sep))

jsonpp_has(obj, key, sep) ==
    LET r == jsonpp_get_list(obj, KeyList(key, sep))
    IN IF r.ok THEN Ok(TRUE)
       ELSE IF r.exc = "KeyError" THEN Ok(FALSE)
       ELSE r

-----------------------------------------------------------------------------
(* jsonplus.flatten and jsonplus.expand *)

RECURSIVE SetToSeq(_)
\* the keys of a dict in iteration order (one fixed order per key set)
SetToSeq(S) ==
    IF S = {} THEN <<>>
    ELSE LET x == CHOOSE y \in S : TRUE IN <<x>> \o SetToSeq(S \ {x})

\* Items with the array indices counted from 1 (enumerate(json_obj, 1))
Items_OneBased(json_obj) ==
    IF json_obj.t = "obj"
    THEN LET ks == SetToSeq(DOMAIN json_obj.m)
         IN [n \in 1..Len(ks) |-> [key |-> JStr(ks[n]), sub |-> json_obj.m[ks[n]]]]
    ELSE [n \in 1..Len(json_obj.e) |-> [key |-> JInt(n), sub |-> json_obj.e[n]]]

\* the (key, subjson) pairs a container is iterated by:
\* json_obj.items() for an Object, enumerate(json_obj) for an Array
Items(json_obj) ==
    IF json_obj.t = "obj"
    THEN LET ks == SetToSeq(DOMAIN json_obj.m)
         IN [n \in 1..Len(ks) |-> [key |-> JStr(ks[n]), sub |-> json_obj.m[ks[n]]]]
    ELSE [n \in 1..Len(json_obj.e) |-> [key |-> JInt(n - 1), sub |-> json_obj.e[n]]]

RECURSIVE walker(_, _, _)
RECURSIVE walk_items(_, _, _)
\* walker(flat_json, keys, json_obj): the list flat_json after the walk
walker(flat_json, keys, json_obj) ==
    LET type_ == TypeOf(json_obj)
    IN IF ~type_.ok THEN type_
       ELSE IF type_.val \in {"Object", "Array"} THEN walk_items(flat_json, keys, Items(json_obj))
       ELSE Ok(Append(flat_json, [k |-> keys, v |-> json_obj]))

walk_items(flat_json, keys, items) ==
    IF items = <<>> THEN Ok(flat_json)
    ELSE LET r == walker(flat_json, Append(keys, Head(items).key), Head(items).sub)
         IN IF r.ok THEN walk_items(r.val, keys, Tail(items)) ELSE r

flatten(json_obj) == walker(<<>>, <<>>, json_obj)

Ord(c) == CASE c = "." -> 46 [] c = "a" -> 97 [] c = "b" -> 98 [] c = "x" -> 120
            [] c = "y" -> 121 [] OTHER -> 122

RECURSIVE CmpChars(_, _)
CmpChars(u, w) ==
    IF u = <<>> /\ w = <<>> THEN "eq"
    ELSE IF u = <<>> THEN "lt"
    ELSE IF w = <<>> THEN "gt"
    ELSE IF Ord(Head(u)) < Ord(Head(w)) THEN "lt"
    ELSE IF Ord(Head(u)) > Ord(Head(w)) THEN "gt"
    ELSE CmpChars(Tail(u), Tail(w))

RECURSIVE CmpKeys(_, _)
\* Python's ordering of two key tuples: the first unequal pair of items
\* decides, and str against int cannot be ordered ("err", a TypeError)
CmpKeys(k1, k2) ==
    IF k1 = <<>> /\ k2 = <<>> THEN "eq"
    ELSE IF k1 = <<>> THEN "lt"
    ELSE IF k2 = <<>> THEN "gt"
    ELSE IF Head(k1) = Head(k2) THEN CmpKeys(Tail(k1), Tail(k2))
    ELSE IF Head(k1).t # Head(k2).t THEN "err"
    ELSE IF Head(k1).t = "int" THEN (IF Head(k1).i < Head(k2).i THEN "lt" ELSE "gt")
    ELSE CmpChars(Head(k1).s, Head(k2).s)

RECURSIVE InsertSorted(_, _)
\* x placed after the last item of the sorted list that is not greater
InsertSorted(sorted, x) ==
    IF sorted = <<>> THEN Ok(<<x>>)
    ELSE LET last == sorted[Len(sorted)]
             c == CmpKeys(x.k, last.k)
         IN IF c = "err" THEN Raise("TypeError")
            ELSE IF c = "lt"
                 THEN LET r == InsertSorted(SubSeq(sorted, 1, Len(sorted) - 1), x)
                      IN IF r.ok THEN Ok(Append(r.val, last)) ELSE r
                 ELSE Ok(Append(sorted, x))

RECURSIVE SortedByKey(_)
\* sorted(flat_json, key=lambda x: x[0]): a stable sort on the key tuples
SortedByKey(flat) ==
    IF flat = <<>> THEN Ok(<<>>)
    ELSE LET r == SortedByKey(SubSeq(flat, 1, Len(flat) - 1))
         IN IF r.ok THEN InsertSorted(r.val, flat[Len(flat)]) ELSE r

\* the entries of flat whose first key is key0, with that key stripped
Group(flat, key0) ==
    LET first_is(x) == x.k[1] = key0
        sel == SelectSeq(flat, first_is)
    IN [n \in 1..Len(sel) |-> [k |-> Tail(sel[n].k), v |-> sel[n].v]]

RECURSIVE rec(_)
rec(flat) ==
    IF Len(flat) = 0 THEN Raise("ValueError")
    ELSE LET first_keylist == flat[1].k
             last_keylist == flat[Len(flat)].k
         IN IF Len(first_keylist) = 0
            THEN (IF Len(flat) > 1 THEN Raise("ValueError") ELSE Ok(flat[1].v))
            ELSE IF \E n \in 1..Len(flat) : Len(flat[n].k) = 0 THEN Raise("IndexError")
            ELSE IF first_keylist[1].t = "str"
            THEN LET firsts == {flat[n].k[1] : n \in 1..Len(flat)}
                     bad == {n \in 1..Len(flat) : ~rec(Group(flat, flat[n].k[1])).ok}
                 IN IF \E key \in firsts : key.t # "str" THEN Raise("TypeError")
                    ELSE IF bad # {}
                    THEN rec(Group(flat, flat[CHOOSE n \in bad : \A o \in bad : n <= o].k[1]))
                    ELSE Ok(JObj([name \in {key.s : key \in firsts} |->
                                      rec(Group(flat, JStr(name))).val]))
            ELSE IF first_keylist[1].t = "int"
            THEN LET size == last_keylist[1].i + 1
                     bad == {n \in 0..(size - 1) : ~rec(Group(flat, JInt(n))).ok}
                 IN IF \E n \in 1..Len(flat) : flat[n].k[1].t # "int" THEN Raise("TypeError")
                    ELSE IF \E n \in 1..Len(flat) : flat[n].k[1].i >= size THEN Raise("IndexError")
                    ELSE IF bad # {}
                    THEN rec(Group(flat, JInt(CHOOSE n \in bad : \A o \in bad : n <= o)))
                    ELSE Ok(JArr([n \in 1..size |-> rec(Group(flat, JInt(n - 1))).val]))
            ELSE Raise("TypeError")

\* expand(flat_json) with dict_only left at its default, False
expand(flat_json) ==
    LET s == SortedByKey(flat_json)
    IN IF s.ok THEN rec(s.val) ELSE s

-----------------------------------------------------------------------------
(* jsondb.Operator and jsondb.Comparison *)

\* str(value).lower() on the names used as operators and comparisons
Lower(x) ==
    CASE x = "AND" -> "and" [] x = "OR" -> "or" [] x = "ALL" -> "all" [] x = "ANY" -> "any"
      [] x = "And" -> "and" [] x = "Or" -> "or" [] x = "All" -> "all" [] x = "Any" -> "any"
      [] x = "LT" -> "lt" [] x = "LEQ" -> "leq" [] x = "EQ" -> "eq" [] x = "NEQ" -> "neq"
      [] x = "GEQ" -> "geq" [] x = "GT" -> "gt"
      [] OTHER -> x

OperatorAliases == [AND |-> {"and", "all"}, OR |-> {"or", "any"}]

\* Operator(x): a member is itself; otherwise the member one of whose aliases
\* is the lower-cased x; no such member is a ValueError
OperatorOf(x) ==
    IF x = "Operator.AND" THEN Ok("AND")
    ELSE IF x = "Operator.OR" THEN Ok("OR")
    ELSE IF Lower(x) \in OperatorAliases.AND THEN Ok("AND")
    ELSE IF Lower(x) \in OperatorAliases.OR THEN Ok("OR")
    ELSE RaiseMsg("ValueError", "is not a valid Operator")

ComparisonAliases ==
    [LT |-> {"lt", "<"}, LEQ |-> {"leq", "<="}, EQ |-> {"eq", "=", "=="},
     NEQ |-> {"neq", "!="}, GEQ |-> {"geq", ">="}, GT |-> {"gt", ">"}]

ComparisonOf(x) ==
    IF \E m \in DOMAIN ComparisonAliases : x = "Comparison." \o m
    THEN Ok(CHOOSE m \in DOMAIN ComparisonAliases : x = "Comparison." \o m)
    ELSE IF \E m \in DOMAIN ComparisonAliases : Lower(x) \in ComparisonAliases[m]
    THEN Ok(CHOOSE m \in DOMAIN ComparisonAliases : Lower(x) \in ComparisonAliases[m])
    ELSE RaiseMsg("ValueError", "is not a valid Comparison")

\* Python truth value of a returned object
Truthy(v) ==
    IF v.t = "bool" THEN v.b
    ELSE IF v.t = "int" THEN v.i # 0
    ELSE IF v.t = "str" THEN v.s # <<>>
    ELSE IF v.t = "arr" THEN v.e # <<>>
    ELSE IF v.t = "obj" THEN DOMAIN v.m # {}
    ELSE FALSE

RECURSIVE Combine_Swapped(_, _)
\* Combine with the two functions exchanged: AND scans like any, OR like all
Combine_Swapped(ops, results) ==
    IF results = <<>> THEN Ok(JBool(ops = "OR"))
    ELSE LET r == Head(results)
         IN IF ~r.ok THEN r
            ELSE IF ops = "OR" /\ ~Truthy(r.val) THEN Ok(JBool(FALSE))
            ELSE IF ops = "AND" /\ Truthy(r.val) THEN Ok(JBool(TRUE))
            ELSE Combine_Swapped(ops, Tail(results))

RECURSIVE Combine(_, _)
\* all(...) / any(...) over a generator: the items are produced one by one,
\* a raising item ends the call, and the scan stops at the first deciding item
Combine(ops, results) ==
    IF results = <<>> THEN Ok(JBool(ops = "AND"))
    ELSE LET r == Head(results)
         IN IF ~r.ok THEN r
            ELSE IF ops = "AND" /\ ~Truthy(r.val) THEN Ok(JBool(FALSE))
            ELSE IF ops = "OR" /\ Truthy(r.val) THEN Ok(JBool(TRUE))
            ELSE Combine(ops, Tail(results))

-----------------------------------------------------------------------------
(* jsondb fields: OptionField, IntegerField, TextField *)

OptionField(key, values, optional) ==
    [TYPE |-> "Option", key |-> key, optional |-> optional, values |-> values]
IntegerField(key, min_, max_, optional) ==
    [TYPE |-> "Integer", key |-> key, optional |-> optional, min_ |-> min_, max_ |-> max_]
TextField(key, optional) ==
    [TYPE |-> "Text", key |-> key, optional |-> optional]

ValueSet(S) == [t |-> "ValueSet", e |-> S]

Hashable(v) == v.t \in {"int", "str", "bool", "none"}

\* variant taking the keys of an Object where the code takes its values
ValuesAsSet_Keys(json_value) ==
    LET items == IF json_value.t = "arr"
                 THEN {json_value.e[n] : n \in 1..Len(json_value.e)}
                 ELSE {JStr(k) : k \in DOMAIN json_value.m}
    IN IF \A v \in items : Hashable(v) THEN Ok(items) ELSE Raise("TypeError")

\* set(json_value if Array else json_value.values()); unhashable items raise
ValuesAsSet(json_value) ==
    LET items == IF json_value.t = "arr"
                 THEN {json_value.e[n] : n \in 1..Len(json_value.e)}
                 ELSE {json_value.m[k] : k \in DOMAIN json_value.m}
    IN IF \A v \in items : Hashable(v) THEN Ok(items) ELSE Raise("TypeError")

\* `return json_value in valid_values` when json_value is a scalar
OptionField_scalar_in_set(json_value, valid_values, ops) == json_value \in valid_values

OptionField_test(self, json_value, valid_values, operator) ==
    IF valid_values.t = "ValueSet" THEN
        IF valid_values.e \ self.values # {}
        THEN RaiseMsg("ValueError", "Invalid test values")
        ELSE LET ty == TypeOf(json_value)
             IN IF ~ty.ok THEN ty
                ELSE IF ty.val = "Value"
                THEN Ok(JBool(OptionField_scalar_in_set(json_value, valid_values.e, operator)))
                ELSE LET values == ValuesAsSet(json_value)
                         ops == OperatorOf(operator)
                     IN IF ~values.ok THEN values
                        ELSE IF ~ops.ok THEN ops
                        ELSE LET match == values.val \cap valid_values.e
                             IN IF ops.val = "OR" THEN Ok(JBool(match # {}))
                                ELSE Ok(JBool(match = valid_values.e))
    ELSE
        IF ~Hashable(valid_values) THEN Raise("TypeError")
        ELSE IF valid_values \notin self.values
        THEN RaiseMsg("ValueError", "Invalid value")
        ELSE LET ty == TypeOf(json_value)
             IN IF ~ty.ok THEN ty
                ELSE IF ty.val = "Value" THEN Ok(JBool(json_value = valid_values))
                ELSE LET values == ValuesAsSet(json_value)
                     IN IF ~values.ok THEN values
                        ELSE Ok(JBool(valid_values \in values.val))

IntegerField_bounded_value(self, value) ==
    IF self.min_ # None /\ value < self.min_.i THEN self.min_.i
    ELSE IF self.max_ # None /\ value > self.max_.i THEN self.max_.i
    ELSE value

\* Comparison_compare with the operands exchanged (y OPS x)
Comparison_compare_Swapped(comparison, x, y) ==
    IF x.t # "int" THEN
        IF comparison = "EQ" THEN Ok(JBool(FALSE))
        ELSE IF comparison = "NEQ" THEN Ok(JBool(TRUE))
        ELSE Raise("TypeError")
    ELSE Ok(JBool(CASE comparison = "LT" -> y < x.i
                    [] comparison = "LEQ" -> y <= x.i
                    [] comparison = "EQ" -> y = x.i
                    [] comparison = "NEQ" -> y # x.i
                    [] comparison = "GEQ" -> y >= x.i
                    [] comparison = "GT" -> y > x.i))

\* comparison.compare(x, y) with y an int: a non-int x is unequal to y and
\* cannot be ordered against it
Comparison_compare(comparison, x, y) ==
    IF x.t # "int" THEN
        IF comparison = "EQ" THEN Ok(JBool(FALSE))
        ELSE IF comparison = "NEQ" THEN Ok(JBool(TRUE))
        ELSE Raise("TypeError")
    ELSE Ok(JBool(CASE comparison = "LT" -> x.i < y
                    [] comparison = "LEQ" -> x.i <= y
                    [] comparison = "EQ" -> x.i = y
                    [] comparison = "NEQ" -> x.i # y
                    [] comparison = "GEQ" -> x.i >= y
                    [] comparison = "GT" -> x.i > y))

IntegerField_test(self, json_value, value0, comparison0) ==
    IF value0.t # "int" THEN Raise(IF value0.t = "str" THEN "ValueError" ELSE "TypeError")
    ELSE LET value == value0.i
         IN IF self.min_ # None /\ value < self.min_.i
            THEN RaiseMsg("ValueError", "Invalid value: must be >= min")
            ELSE IF self.max_ # None /\ value > self.max_.i
            THEN RaiseMsg("ValueError", "Invalid value: must be <= max")
            ELSE LET comparison == ComparisonOf(comparison0)
                 IN IF ~comparison.ok THEN comparison
                    ELSE Comparison_compare(comparison.val, json_value, value)

\* u occurs at the start of w only
IsSubstring_Prefix(u, w) ==
    Len(u) <= Len(w) /\ \A n \in 1..Len(u) : w[n] = u[n]

\* u occurs in w as a run of consecutive characters
IsSubstring(u, w) ==
    \E start \in 0..(Len(w) - Len(u)) : \A n \in 1..Len(u) : w[start + n] = u[n]

\* `subtxt in json_value`
Contains(subtxt, json_value) ==
    IF json_value.t = "str" THEN
        IF subtxt.t = "str" THEN Ok(JBool(IsSubstring(subtxt.s, json_value.s)))
        ELSE Raise("TypeError")
    ELSE IF json_value.t = "arr"
    THEN Ok(JBool(\E n \in 1..Len(json_value.e) : json_value.e[n] = subtxt))
    ELSE IF json_value.t = "obj" THEN
        IF ~Hashable(subtxt) THEN Raise("TypeError")
        ELSE Ok(JBool(subtxt.t = "str" /\ subtxt.s \in DOMAIN json_value.m))
    ELSE Raise("TypeError")

\* the items a `for subtxt in value` loop visits
IterItems(value) ==
    IF value.t = "arr" THEN Ok(value.e)
    ELSE IF value.t = "str" THEN Ok([n \in 1..Len(value.s) |-> JStr(<<value.s[n]>>)])
    ELSE IF value.t = "obj" THEN Ok([n \in 1..Len(SetToSeq(DOMAIN value.m)) |->
                                        JStr(SetToSeq(DOMAIN value.m)[n])])
    ELSE Raise("TypeError")

TextField_test(self, json_value, value, operator) ==
    LET ops == OperatorOf(operator)
        items == IterItems(value)
    IN IF ~ops.ok THEN ops
       ELSE IF ~items.ok THEN items
       ELSE Combine(ops.val, [n \in 1..Len(items.val) |-> Contains(items.val[n], json_value)])

\* self.test(json_value, **kwargs): the keyword arguments are bound to the
\* parameters of the variant's test method; a missing required argument or
\* an unexpected one is a TypeError
Field_test(self, json_value, kwargs) ==
    LET names == DOMAIN kwargs
        arg(name, default) == IF name \in names THEN kwargs[name] ELSE default
    IN IF self.TYPE = "Option" THEN
           IF "valid_values" \notin names \/ ~(names \subseteq {"valid_values", "operator"})
           THEN Raise("TypeError")
           ELSE OptionField_test(self, json_value, kwargs["valid_values"],
                                 arg("operator", "Operator.OR"))
       ELSE IF self.TYPE = "Integer" THEN
           IF "value" \notin names \/ ~(names \subseteq {"value", "comparison"})
           THEN Raise("TypeError")
           ELSE IntegerField_test(self, json_value, kwargs["value"],
                                  arg("comparison", "Comparison.EQ"))
       ELSE IF "value" \notin names \/ ~(names \subseteq {"value", "operator"})
            THEN Raise("TypeError")
            ELSE TextField_test(self, json_value, kwargs["value"],
                                arg("operator", "Operator.OR"))

\* kwargs without the entry `name`
Without(kwargs, name) == [n \in DOMAIN kwargs \ {name} |-> kwargs[n]]

\* FieldBase.compare(json_obj, accept_missing=True, **kwargs)
FieldBase_compare(self, json_obj, kwargs0) ==
    LET accept_missing == IF "accept_missing" \in DOMAIN kwargs0
                          THEN kwargs0["accept_missing"] ELSE JBool(TRUE)
        kwargs == Without(kwargs0, "accept_missing")
        present == jsonplus_has(json_obj, self.key, "None", ".")
    IN IF ~present.ok THEN present
       ELSE IF present.val
       THEN LET value == jsonplus_get(json_obj, self.key, "None", ".")
            IN IF ~value.ok THEN value ELSE Field_test(self, value.val, kwargs)
       ELSE Ok(accept_missing)

-----------------------------------------------------------------------------
(* jsondb.Database *)

\* an ordered mapping (dict) is a sequence of [name, val] entries, names distinct
Names(dict) == {dict[n].name : n \in 1..Len(dict)}
Lookup(dict, name) == dict[CHOOSE n \in 1..Len(dict) : dict[n].name = name].val

\* Database_missing_required with the negation of field.optional dropped
Database_missing_required_NoNot(self_fields, criteria) ==
    SelectSeq(self_fields, LAMBDA e : e.val.optional /\ e.name \notin Names(criteria))

\* the declared fields a search must name: `not field.optional and
\* field_name not in criteria`, in the order of self.fields
Database_missing_required(self_fields, criteria) ==
    SelectSeq(self_fields, LAMBDA e : ~e.val.optional /\ e.name \notin Names(criteria))

\* `set(criteria) - set(self.fields)`
Database_unknown_names(self_fields, criteria) == Names(criteria) \ Names(self_fields)

RECURSIVE Database_filter_Reversed(_, _, _)
\* Database_filter collecting the kept records last-to-first
Database_filter_Reversed(self_data, field_kwargs, ops) ==
    IF self_data = <<>> THEN Ok(<<>>)
    ELSE LET json_obj == Head(self_data)
             keep == Combine(ops, [n \in 1..Len(field_kwargs) |->
                         FieldBase_compare(field_kwargs[n].field, json_obj,
                                           field_kwargs[n].kwargs)])
         IN IF ~keep.ok THEN keep
            ELSE LET rest == Database_filter_Reversed(Tail(self_data), field_kwargs, ops)
                 IN IF ~rest.ok THEN rest
                    ELSE IF Truthy(keep.val) THEN Ok(rest.val \o <<json_obj>>)
                    ELSE rest

\* the records of self_data, in order, that the combined field tests keep;
\* the first raising test ends the search
RECURSIVE Database_filter(_, _, _)
Database_filter(self_data, field_kwargs, ops) ==
    IF self_data = <<>> THEN Ok(<<>>)
    ELSE LET json_obj == Head(self_data)
             keep == Combine(ops, [n \in 1..Len(field_kwargs) |->
                         FieldBase_compare(field_kwargs[n].field, json_obj,
                                           field_kwargs[n].kwargs)])
         IN IF ~keep.ok THEN keep
            ELSE LET rest == Database_filter(Tail(self_data), field_kwargs, ops)
                 IN IF ~rest.ok THEN rest
                    ELSE IF Truthy(keep.val) THEN Ok(<<json_obj>> \o rest.val)
                    ELSE rest

Database_search(self_data, self_fields, criteria, operator) ==
    IF Database_missing_required(self_fields, criteria) # <<>>
    THEN RaiseMsg("ValueError", "Field must be specified")
    ELSE IF Database_unknown_names(self_fields, criteria) # {}
    \* "Unknown search field %s" % set(criteria) - set(self.fields): the
    \* string is formatted first and the set is then subtracted from it
    THEN RaiseMsg("TypeError", "unsupported operand type(s) for -: 'str' and 'set'")
    ELSE LET field_kwargs == [n \in 1..Len(criteria) |->
                                 [field |-> Lookup(self_fields, criteria[n].name),
                                  kwargs |-> criteria[n].val]]
             ops == OperatorOf(operator)
         IN IF ~ops.ok THEN ops
            ELSE Database_filter(self_data, field_kwargs, ops.val)

-----------------------------------------------------------------------------
(* The JSON values and paths the calls are tried on *)

KeyNames == {<<"a">>, <<"b">>}
Scalars == {JInt(1), JStr(<<"x">>)}

Containers(S) ==
    {JObj(m) : m \in MapsOver(KeyNames, S)} \cup {JArr(e) : e \in SeqsUpTo(S, MaxArrayLen)}

Json1 == Scalars \cup Containers(Scalars)
Json2 == Scalars \cup Containers(Json1)

RECURSIVE JoinDots(_)
JoinDots(names) ==
    IF names = <<>> THEN <<>>
    ELSE IF Len(names) = 1 THEN names[1]
    ELSE names[1] \o <<".">> \o JoinDots(Tail(names))

Segments == {JStr(n) : n \in KeyNames} \cup {JInt(0), JInt(MaxArrayLen)}

\* a path is given as a list of segments or as a dotted string
PathKeys ==
    {JArr(e) : e \in SeqsUpTo(Segments, MaxKeyLen)}
    \cup {JStr(JoinDots(ns)) : ns \in SeqsUpTo(KeyNames \cup {<<>>}, MaxKeyLen)}

-----------------------------------------------------------------------------
(* Specification of the path utilities: one call of get / has on an input *)

InitPath ==
    /\ data = <<>>
    /\ fields = <<>>
    /\ pc = "idle"
    /\ args \in [obj : Json2, key : PathKeys]
    /\ ret = None

JsonplusGet ==
    /\ pc = "idle"
    /\ pc' = "jsonplus.get"
    /\ ret' = jsonplus_get(args.obj, args.key, "None", ".")
    /\ UNCHANGED <<data, fields, args>>

JsonppGet ==
    /\ pc = "idle"
    /\ pc' = "jsonpp.get"
    /\ ret' = jsonpp_get(args.obj, args.key, ".")
    /\ UNCHANGED <<data, fields, args>>

JsonplusHas ==
    /\ pc = "idle"
    /\ pc' = "jsonplus.has"
    /\ ret' = jsonplus_has(args.obj, args.key, "None", ".")
    /\ UNCHANGED <<data, fields, args>>

JsonppHas ==
    /\ pc = "idle"
    /\ pc' = "jsonpp.has"
    /\ ret' = jsonpp_has(args.obj, args.key, ".")
    /\ UNCHANGED <<data, fields, args>>

NextPath == JsonplusGet \/ JsonppGet \/ JsonplusHas \/ JsonppHas

SpecPath == InitPath /\ [][NextPath]_vars

-----------------------------------------------------------------------------
(* Claims about get and has *)

RECURSIVE Reach(_, _)
\* the value reached by descending root[k1][k2]...[kn], or the failure met
Reach(root, ks) ==
    IF ks = <<>> THEN Ok(root)
    ELSE LET r == Subscript(root, Head(ks))
         IN IF r.ok THEN Reach(r.val, Tail(ks)) ELSE r

\* C7: jsonplus.get returns the value reached by descending every segment of
\* the path (failing when a segment is absent), and agrees with jsonpp.get
\* on every input.
C7_GetDescendsAndAgrees ==
    (pc = "jsonplus.get" /\ Len(KeyList(args.key, ".")) >= 1) =>
        /\ ret = Reach(args.obj, KeyList(args.key, "."))
        /\ ret = jsonpp_get(args.obj, args.key, ".")

\* C8: has never raises; it returns true exactly when get succeeds and false
\* whenever get fails, whatever the reason.
C8_HasNeverRaises ==
    pc = "jsonplus.has" =>
        /\ ret.ok
        /\ ret.val = jsonplus_get(args.obj, args.key, "None", ".").ok

-----------------------------------------------------------------------------
(* Specification of flatten / expand: a value is flattened, then expanded *)

InitFlat ==
    /\ data = <<>>
    /\ fields = <<>>
    /\ pc = "idle"
    /\ args \in [obj : Json2]
    /\ ret = None

Flatten ==
    /\ pc = "idle"
    /\ pc' = "flattened"
    /\ ret' = flatten(args.obj)
    /\ UNCHANGED <<data, fields, args>>

Expand ==
    /\ pc = "flattened"
    /\ ret.ok
    /\ pc' = "expanded"
    /\ ret' = expand(ret.val)
    /\ UNCHANGED <<data, fields, args>>

NextFlat == Flatten \/ Expand

SpecFlat == InitFlat /\ [][NextFlat]_vars

RECURSIVE HasEmptyContainer(_)
\* v is, or holds at some depth, an Object or an Array with no entry
HasEmptyContainer(v) ==
    IF v.t = "obj" THEN DOMAIN v.m = {} \/ \E k \in DOMAIN v.m : HasEmptyContainer(v.m[k])
    ELSE IF v.t = "arr" THEN v.e = <<>> \/ \E n \in 1..Len(v.e) : HasEmptyContainer(v.e[n])
    ELSE FALSE

IsContainer(v) == v.t \in {"obj", "arr"}

\* C9 as stated: expand(flatten(v)) equals v for every value v whose root is
\* an Object or an Array, empty Objects and empty Arrays included.
C9_RoundTripAll ==
    (pc = "expanded" /\ IsContainer(args.obj)) => ret = Ok(args.obj)

\* C9 amended: expand(flatten(v)) equals v for every value v whose root is an
\* Object or an Array and that holds no empty Object and no empty Array at
\* any depth.
C9_RoundTripNoEmpty ==
    (pc = "expanded" /\ IsContainer(args.obj) /\ ~HasEmptyContainer(args.obj))
        => ret = Ok(args.obj)

\* an Array of two entries nested in an Object came back from the round trip
C9_Witness ==
    /\ pc = "expanded"
    /\ args.obj.t = "obj"
    /\ ~HasEmptyContainer(args.obj)
    /\ \E k \in DOMAIN args.obj.m : args.obj.m[k].t = "arr" /\ Len(args.obj.m[k].e) >= 2
    /\ ret = Ok(args.obj)

-----------------------------------------------------------------------------
(* Specification of the database: a database is built, then searched *)

StrX == JStr(<<"x">>)
StrY == JStr(<<"y">>)
StrQ == JStr(<<"q">>)

FieldNames == {"f", "g"}
UnknownName == "h"

\* the fields a database is declared with
DbFields ==
    {OptionField(JStr(<<"a">>), {StrX, StrY}, TRUE),
     OptionField(JStr(<<"b">>), {StrX}, FALSE),
     IntegerField(JStr(<<"b">>), JInt(0), JInt(2), TRUE)}

DbFieldMaps ==
    {<<[name |-> "f", val |-> F]>> : F \in DbFields}
    \cup {<<[name |-> "f", val |-> F], [name |-> "g", val |-> G]>> : F \in DbFields, G \in DbFields}

\* the records a database holds
DbRecords ==
    {JObj(EmptyMap),
     JObj(<<"a">> :> StrX),
     JObj(<<"a">> :> JArr(<<StrX, StrY>>) @@ <<"b">> :> JInt(1)),
     JObj(<<"a">> :> StrY @@ <<"b">> :> StrX)}

\* the keyword arguments a criteria map gives for one field
DbKwargs ==
    {[valid_values |-> StrX],
     [valid_values |-> StrQ],
     [valid_values |-> ValueSet({StrX, StrY}), operator |-> "and", accept_missing |-> JBool(FALSE)],
     [value |-> JInt(1), comparison |-> ">="],
     [value |-> JInt(3), accept_missing |-> JBool(FALSE)]}

DistinctNames(dict) == \A m, n \in 1..Len(dict) : m # n => dict[m].name # dict[n].name

DbCriteria ==
    {c \in SeqsUpTo([name : FieldNames \cup {UnknownName}, val : DbKwargs], 2) : DistinctNames(c)}

DbOperators == {"Operator.AND", "or", "xor"}

InitDb ==
    /\ data \in SeqsUpTo(DbRecords, MaxRecords)
    /\ fields \in DbFieldMaps
    /\ pc = "idle"
    /\ args = None
    /\ ret = None

\* results = database.search(criteria, operator)
Search ==
    /\ pc = "idle"
    /\ \E criteria \in DbCriteria, operator \in DbOperators :
          /\ args' = [criteria |-> criteria, operator |-> operator]
          /\ ret' = Database_search(data, fields, criteria, operator)
    /\ pc' = "search"
    /\ UNCHANGED <<data, fields>>

\* the caller takes the outcome and is ready for the next query
Return ==
    /\ pc = "search"
    /\ pc' = "idle"
    /\ args' = None
    /\ ret' = None
    /\ UNCHANGED <<data, fields>>

NextDb == Search \/ Return

SpecDb == InitDb /\ [][NextDb]_vars

-----------------------------------------------------------------------------
(* Claims about Database.search *)

Searched == pc = "search"

\* the field a criteria entry names, and whether the record passes its compare
CriteriaField(n) == Lookup(fields, args.criteria[n].name)
Passes(r, n) ==
    LET c == FieldBase_compare(CriteriaField(n), r, args.criteria[n].val)
    IN c.ok /\ Truthy(c.val)

\* the per-field results combine to true under the operator of the call
CombinesToTrue(r) ==
    IF OperatorOf(args.operator).val = "AND"
    THEN \A n \in 1..Len(args.criteria) : Passes(r, n)
    ELSE \E n \in 1..Len(args.criteria) : Passes(r, n)

\* C1: the list search returns holds exactly the records whose per-field
\* compare results combine to true: all of them under AND, at least one under
\* OR; an empty criteria map under AND returns every record.
C1_SearchReturnsCombined ==
    (Searched /\ ret.ok) =>
        /\ ret.val = SelectSeq(data, CombinesToTrue)
        /\ (args.criteria = <<>> /\ OperatorOf(args.operator).val = "AND") => ret.val = data

\* a record passing only one of two criteria is kept under OR, next to a
\* record passing none that is dropped
C1_Witness ==
    /\ Searched /\ ret.ok
    /\ Len(args.criteria) = 2
    /\ OperatorOf(args.operator).val = "OR"
    /\ Len(data) = 2
    /\ Len(ret.val) = 1
    /\ \E n \in 1..2 : ~Passes(ret.val[1], n)

MissingRequired ==
    \E n \in 1..Len(fields) : ~fields[n].val.optional /\ fields[n].name \notin Names(args.criteria)

\* C2: a search whose criteria lack a declared non-optional field fails with
\* the missing-required-field error, whatever the records and the operator,
\* and before any record is evaluated.
C2_MissingRequiredFails ==
    (Searched /\ MissingRequired) => ret = RaiseMsg("ValueError", "Field must be specified")

\* the required field is missing in a search over an empty database whose
\* criteria also carry an invalid value and whose operator is no operator
C2_Witness ==
    /\ Searched /\ MissingRequired
    /\ data = <<>>
    /\ args.operator = "xor"
    /\ \E n \in 1..Len(args.criteria) : args.criteria[n].val = [valid_values |-> StrQ]
    /\ ret = RaiseMsg("ValueError", "Field must be specified")

UnknownCriteria == \E n \in 1..Len(args.criteria) : args.criteria[n].name \notin Names(fields)

\* C3: a search whose criteria name an undeclared field (every non-optional
\* field being named) fails with the ValueError "Unknown search field ..."
\* and with no other kind of error.
C3_UnknownFieldValueError ==
    (Searched /\ ~MissingRequired /\ UnknownCriteria) =>
        (~ret.ok /\ ret.exc = "ValueError" /\ ret.msg = "Unknown search field")

\* a criteria entry gives an Option field a value outside field.values
InvalidOptionCriteria(n) ==
    LET f == CriteriaField(n)
        kw == args.criteria[n].val
    IN /\ f.TYPE = "Option"
       /\ "valid_values" \in DOMAIN kw
       /\ IF kw.valid_values.t = "ValueSet"
          THEN kw.valid_values.e \ f.values # {}
          ELSE kw.valid_values \notin f.values

\* C4: a search that gives an Option field a value outside the field's values
\* fails with the invalid-criteria error and returns no list, for every record
\* list, both operators and every order of the criteria.
C4_InvalidOptionAlwaysFails ==
    (/\ Searched /\ ~MissingRequired /\ ~UnknownCriteria
     /\ OperatorOf(args.operator).ok
     /\ \E n \in 1..Len(args.criteria) : InvalidOptionCriteria(n)) =>
        /\ ~ret.ok
        /\ Len(args.criteria) = 1 =>
              (ret.exc = "ValueError" /\ ret.msg \in {"Invalid value", "Invalid test values"})

\* r is s with some entries left out: the entries of r are entries of s taken
\* at strictly increasing positions
IsSubsequence(r, s) ==
    \E pos \in [1..Len(r) -> 1..Len(s)] :
        /\ \A n \in 1..Len(r) : r[n] = s[pos[n]]
        /\ \A m, n \in 1..Len(r) : m < n => pos[m] < pos[n]

\* C5: the list search returns is a subsequence of the record list: only
\* records of the database, none more often than stored, in stored order.
C5_ResultIsSubsequence ==
    (Searched /\ ret.ok) => IsSubsequence(ret.val, data)

\* two different records were both returned by a search with criteria
C5_Witness ==
    /\ Searched /\ ret.ok
    /\ args.criteria # <<>>
    /\ Len(data) = 2 /\ data[1] # data[2]
    /\ ret.val = data

-----------------------------------------------------------------------------
(* Specification of one field: compare on a record, test on a value *)

\* the values a record holds at a key: scalars, and Arrays and Objects of them
FieldScalars == {StrX, StrY, JInt(1)}
FieldValues ==
    FieldScalars
    \cup {JArr(e) : e \in SeqsUpTo(FieldScalars, MaxArrayLen)}
    \cup {JObj(m) : m \in MapsOver(KeyNames, FieldScalars)}

\* the values and records the calls are tried on
FieldJson == FieldValues \cup {JObj(<<"a">> :> v) : v \in FieldValues}

FieldKeys == {JStr(<<"a">>), JStr(<<"a", ".", "b">>)}

TestFields ==
    UNION {{OptionField(k, {StrX, StrY}, o),
            IntegerField(k, JInt(0), JInt(2), o),
            IntegerField(k, None, None, o),
            TextField(k, o)} : k \in FieldKeys, o \in BOOLEAN}

TestKwargs0 ==
    {[valid_values |-> v] : v \in {StrX, StrQ}}
    \cup {[valid_values |-> ValueSet(S), operator |-> o] :
             S \in SUBSET {StrX, StrY}, o \in {"and", "OR", "Operator.AND"}}
    \cup {[valid_values |-> ValueSet({StrX, StrQ})]}
    \cup {[value |-> JInt(1), comparison |-> c] : c \in {">=", "LT", "Comparison.NEQ"}}
    \cup {[value |-> JInt(3)]}
    \cup {[value |-> JArr(e), operator |-> o] :
             e \in {<<>>, <<StrX>>, <<StrX, StrY>>}, o \in {"all", "Any"}}
    \cup {EmptyMap}

\* every bundle is tried without accept_missing and with either value of it
TestKwargs ==
    TestKwargs0
    \cup {[n \in DOMAIN k \cup {"accept_missing"} |->
              IF n = "accept_missing" THEN JBool(a) ELSE k[n]] : k \in TestKwargs0, a \in BOOLEAN}

InitField ==
    /\ data = <<>>
    /\ fields = <<>>
    /\ pc = "idle"
    /\ args \in [field : TestFields, json_obj : FieldJson, kwargs : TestKwargs]
    /\ ret = None

\* field.compare(json_obj, **kwargs)
Compare ==
    /\ pc = "idle"
    /\ pc' = "compare"
    /\ ret' = FieldBase_compare(args.field, args.json_obj, args.kwargs)
    /\ UNCHANGED <<data, fields, args>>

\* field.test(json_value, **kwargs), the value being given directly
Test ==
    /\ pc = "idle"
    /\ "accept_missing" \notin DOMAIN args.kwargs
    /\ pc' = "test"
    /\ ret' = Field_test(args.field, args.json_obj, args.kwargs)
    /\ UNCHANGED <<data, fields, args>>

NextField == Compare \/ Test

SpecField == InitField /\ [][NextField]_vars

-----------------------------------------------------------------------------
(* Claims about Field.compare and OptionField.test *)

\* C6: compare returns accept_missing, without raising and without looking at
\* the criteria, when the record holds no value at field.key (any segment of
\* the path being absent), and field.test(get(record, field.key), criteria)
\* when it holds one; for every variant and either value of optional.
C6_CompareMissingOrTest ==
    (pc = "compare" /\ args.json_obj.t = "obj") =>
        LET value == Reach(args.json_obj, KeyList(args.field.key, "."))
            accept_missing == IF "accept_missing" \in DOMAIN args.kwargs
                              THEN args.kwargs["accept_missing"] ELSE JBool(TRUE)
        IN ret = IF value.ok
                 THEN Field_test(args.field, value.val, Without(args.kwargs, "accept_missing"))
                 ELSE Ok(accept_missing)

\* the set-representation of a record value: {V} for a scalar, the elements
\* of an Array, the values of an Object
SetRepresentation(v) ==
    IF v.t = "arr" THEN {v.e[n] : n \in 1..Len(v.e)}
    ELSE IF v.t = "obj" THEN {v.m[k] : k \in DOMAIN v.m}
    ELSE {v}

\* C10: with a criteria set S inside the field's values, OptionField.test is
\* true under AND iff every element of S is in the set-representation of the
\* record value, and under OR iff S meets it; for scalar, Array and Object
\* record values alike.
C10_MultiSelection ==
    (/\ pc = "test"
     /\ args.field.TYPE = "Option"
     /\ "valid_values" \in DOMAIN args.kwargs
     /\ args.kwargs.valid_values.t = "ValueSet"
     /\ args.kwargs.valid_values.e \subseteq args.field.values
     /\ args.json_obj \in FieldValues) =>
        LET S == args.kwargs.valid_values.e
            V == SetRepresentation(args.json_obj)
            ops == OperatorOf(IF "operator" \in DOMAIN args.kwargs
                              THEN args.kwargs["operator"] ELSE "Operator.OR")
        IN ret = Ok(JBool(IF ops.val = "AND" THEN S \subseteq V ELSE S \cap V # {}))


-----------------------------------------------------------------------------
(* Specification of an Integer field: IntegerField.test called directly, and
   reached from the search form through TkIntegerGui.get_kwargs and
   Database.search *)

VALUE_ANY == [t |-> "any"]

\* the text of the form's entry: VALUE_ANY, or a decimal numeral with its
\* whole part and whether a fractional part follows it
Numeral(whole, frac) == [t |-> "num", whole |-> whole, frac |-> frac]

\* int(float(text)): the fractional part is dropped
IntOfFloat(text) == text.whole

\* TkIntegerGui.get_kwargs: None for VALUE_ANY; otherwise the entry is
\* brought inside the field's bounds and the keyword arguments are built
TkIntegerGui_get_kwargs(self_field, selector, var_acceptNA, var_invert, comp_selector) ==
    IF selector = VALUE_ANY THEN None
    ELSE LET value == IntegerField_bounded_value(self_field, IntOfFloat(selector))
         IN [accept_missing |-> JBool(var_acceptNA),
             invert |-> JBool(var_invert),
             value |-> JInt(value),
             comparison |-> comp_selector]

\* what self.selector.set(value) leaves in the entry
TkIntegerGui_selector_after(self_field, selector) ==
    IF selector = VALUE_ANY THEN selector
    ELSE Numeral(IntegerField_bounded_value(self_field, IntOfFloat(selector)), FALSE)

IntegerKey == JStr(<<"a">>)
IntegerFields ==
    {IntegerField(IntegerKey, mn, mx, o) :
        mn \in {None, JInt(0)}, mx \in {None, JInt(10)}, o \in BOOLEAN}
IntegerValues == {-1, 0, 3, 5, 7, 10, 15}
IntegerRecordValues == {JInt(-1), JInt(3), JInt(5), JInt(7), JInt(10), StrX}
\* the records searched: holding a value at the field's key, or none
IntegerRecords ==
    {JObj(<<"a">> :> v) : v \in IntegerRecordValues} \cup {JObj(<<"b">> :> JInt(7))}
IntegerComparisons == {"lt", "LEQ", "==", "Comparison.NEQ", ">=", "GT", "<", "bogus"}
\* the form: fractional entry, entry left on VALUE_ANY, the two check boxes
\* and the mode of the search button
IntegerForms ==
    [frac : BOOLEAN, any : BOOLEAN, acceptNA : BOOLEAN, invert : BOOLEAN,
     mode : {"All", "Any"}]

IntegerSelector ==
    IF args.form.any THEN VALUE_ANY ELSE Numeral(args.value, args.form.frac)

InitInteger ==
    /\ data = <<>>
    /\ fields = <<>>
    /\ pc = "idle"
    /\ args \in [field : IntegerFields, record : IntegerRecords, value : IntegerValues,
                 comparison : IntegerComparisons, form : IntegerForms]
    \* VALUE_ANY is offered for optional fields only; without a form the
    \* check boxes stay as constructed
    /\ args.form.any => args.field.optional /\ ~args.form.frac
    /\ ret = None

\* field.test(json_value, value, comparison) on the value the record holds
IntegerTest ==
    /\ pc = "idle"
    /\ <<"a">> \in DOMAIN args.record.m
    /\ ~args.form.any /\ ~args.form.frac
    /\ pc' = "integer.test"
    /\ ret' = IntegerField_test(args.field, args.record.m[<<"a">>], JInt(args.value),
                                args.comparison)
    /\ UNCHANGED <<data, fields, args>>

\* the search form hands over the criteria of its Integer field
GetKwargs ==
    /\ pc = "idle"
    /\ pc' = "get_kwargs"
    /\ ret' = TkIntegerGui_get_kwargs(args.field, IntegerSelector, args.form.acceptNA,
                                      args.form.invert, args.comparison)
    /\ data' = <<TkIntegerGui_selector_after(args.field, IntegerSelector)>>
    /\ UNCHANGED <<fields, args>>

\* Database.search with the criteria the form handed over (a field whose
\* form returned None is left out of them)
GuiSearch ==
    /\ pc = "get_kwargs"
    /\ pc' = "gui.search"
    /\ ret' = Database_search(<<args.record>>, <<[name |-> "f", val |-> args.field]>>,
                              IF ret = None THEN <<>> ELSE <<[name |-> "f", val |-> ret]>>,
                              args.form.mode)
    /\ UNCHANGED <<data, fields, args>>

NextInteger == IntegerTest \/ GetKwargs \/ GuiSearch

SpecInteger == InitInteger /\ [][NextInteger]_vars

\* the criteria value lies outside the bounds the field sets
OutOfBounds(self_field, value) ==
    \/ self_field.min_ # None /\ value < self_field.min_.i
    \/ self_field.max_ # None /\ value > self_field.max_.i

RangeError(r) == ~r.ok /\ r.exc = "ValueError" /\ r.msg \in
    {"Invalid value: must be >= min", "Invalid value: must be <= max"}

\* C12: IntegerField.test fails with the range ValueError, whatever the
\* comparison and the record value, when value is below a set min or above a
\* set max; otherwise, for an integer record value, it returns
\* record_value OPS value for OPS among LT, LEQ, EQ, NEQ, GEQ, GT, the record
\* value on the left.  With min 0, max 10, value 5 and GT: record 7 is true,
\* record 3 is false; value 15 fails.
C12_IntegerTest ==
    pc = "integer.test" =>
        LET r == args.record.m[<<"a">>]
            v == args.value
            comparison == ComparisonOf(args.comparison)
        IN /\ OutOfBounds(args.field, v) => RangeError(ret)
           /\ (~OutOfBounds(args.field, v) /\ r.t = "int" /\ comparison.ok) =>
                  ret = Ok(JBool(CASE comparison.val = "LT" -> r.i < v
                                   [] comparison.val = "LEQ" -> r.i <= v
                                   [] comparison.val = "EQ" -> r.i = v
                                   [] comparison.val = "NEQ" -> r.i # v
                                   [] comparison.val = "GEQ" -> r.i >= v
                                   [] comparison.val = "GT" -> r.i > v))
           /\ (args.field.min_ = JInt(0) /\ args.field.max_ = JInt(10)
                  /\ args.comparison = "GT") =>
                  /\ (v = 5 /\ r = JInt(7)) => ret = Ok(JBool(TRUE))
                  /\ (v = 5 /\ r = JInt(3)) => ret = Ok(JBool(FALSE))
                  /\ v = 15 => RangeError(ret)

\* min 0, max 10, value 5, GT, record 7: true
C12_Witness ==
    /\ pc = "integer.test"
    /\ args.field.min_ = JInt(0) /\ args.field.max_ = JInt(10)
    /\ args.value = 5 /\ args.comparison = "GT"
    /\ args.record.m[<<"a">>] = JInt(7)
    /\ ret = Ok(JBool(TRUE))

\* C13: on every path to the comparison, the direct call and the search
\* form followed by Database.search, a value outside [min, max] ends in the
\* range ValueError and is never replaced by the nearest bound.
C13_OutOfBoundsRejected ==
    /\ (pc = "integer.test" /\ OutOfBounds(args.field, args.value)) => RangeError(ret)
    /\ (pc = "get_kwargs" /\ ~args.form.any /\ OutOfBounds(args.field, args.value)) =>
           ret.value = JInt(args.value)
    /\ (pc = "gui.search" /\ ~args.form.any /\ OutOfBounds(args.field, args.value)) =>
           RangeError(ret)


-----------------------------------------------------------------------------
(* Specification of a Text field: TextField.test on a text *)

TextChars == {"x", "y"}
TextRecordValues == {JStr(w) : w \in SeqsUpTo(TextChars, MaxTextLen)}
TextSubtexts == {JStr(u) : u \in SeqsUpTo(TextChars, MaxSubLen)}
TextValues == {JArr(e) : e \in SeqsUpTo(TextSubtexts, MaxArrayLen)}
TextOperators == {"and", "All", "ALL", "Operator.AND", "or", "Any", "ANY", "OR", "xor"}

InitText ==
    /\ data = <<>>
    /\ fields = <<>>
    /\ pc = "idle"
    /\ args \in [field : {TextField(JStr(<<"a">>), TRUE)}, json_value : TextRecordValues,
                 value : TextValues, operator : TextOperators]
    /\ ret = None

\* field.test(json_value, value, operator)
TextTest ==
    /\ pc = "idle"
    /\ pc' = "text.test"
    /\ ret' = TextField_test(args.field, args.json_value, args.value, args.operator)
    /\ UNCHANGED <<data, fields, args>>

NextText == TextTest

SpecText == InitText /\ [][NextText]_vars

\* u is w cut at two places
OccursIn(u, w) == \E i \in 0..Len(w) : \E j \in i..Len(w) : SubSeq(w, i + 1, j) = u

\* C14: on a text, TextField.test is true iff at least one (any / or) or
\* every (all / and) text of the list occurs in it as a substring; the empty
\* list gives false under any and true under all; the operator is named by
\* and, all, or, any in any letter case.
C14_TextTest ==
    pc = "text.test" =>
        LET w == args.json_value.s
            subs == args.value.e
        IN /\ args.operator \in {"and", "All", "ALL", "Operator.AND"} =>
                  ret = Ok(JBool(\A n \in 1..Len(subs) : OccursIn(subs[n].s, w)))
           /\ args.operator \in {"or", "Any", "ANY", "OR"} =>
                  ret = Ok(JBool(\E n \in 1..Len(subs) : OccursIn(subs[n].s, w)))
           /\ (subs = <<>> /\ args.operator \in {"Any", "ANY"}) => ret = Ok(JBool(FALSE))
           /\ (subs = <<>> /\ args.operator \in {"All", "ALL"}) => ret = Ok(JBool(TRUE))

\* "xy" occurs inside "yxy" but "yy" does not: true under Any, false under ALL
C14_Witness ==
    /\ pc = "text.test"
    /\ args.json_value = JStr(<<"y", "x", "y">>)
    /\ args.value = JArr(<<JStr(<<"y", "y">>), JStr(<<"x", "y">>)>>)
    /\ \/ args.operator = "Any" /\ ret = Ok(JBool(TRUE))
       \/ args.operator = "ALL" /\ ret = Ok(JBool(FALSE))


-----------------------------------------------------------------------------
(* parsing.DisplayString: rendered texts, str.format, json.dumps *)

\* A rendered text is a sequence of pieces: characters, and the two texts
\* the model does not spell out character by character, a JSON serialisation
\* and the error payload of DisplayString.format.
Chr(c) == [t |-> "chr", c |-> c]
Text(chars) == [n \in 1..Len(chars) |-> Chr(chars[n])]

\* json.dumps(json_obj, indent=indent): the serialisation of json_obj, kept
\* as the value serialised and the indent
json_dumps(json_obj, indent) == <<[t |-> "dumps", v |-> json_obj, indent |-> indent]>>

DigitChars == <<"0", "1", "2", "3", "4", "5", "6", "7", "8", "9">>

RECURSIVE NatChars(_)
NatChars(n) ==
    IF n < 10 THEN <<DigitChars[n + 1]>>
    ELSE NatChars(n \div 10) \o <<DigitChars[(n % 10) + 1]>>

RECURSIVE JoinChars(_, _)
\* sep.join(parts) on sequences of characters
JoinChars(sep, parts) ==
    IF parts = <<>> THEN <<>>
    ELSE IF Len(parts) = 1 THEN parts[1]
    ELSE parts[1] \o sep \o JoinChars(sep, Tail(parts))

RECURSIVE ReprOf(_)
\* repr(value): texts are quoted, containers list the repr of their items
ReprOf(value) ==
    CASE value.t = "str" -> <<"'">> \o value.s \o <<"'">>
      [] value.t = "int" -> IF value.i < 0 THEN <<"-">> \o NatChars(-value.i)
                            ELSE NatChars(value.i)
      [] value.t = "bool" -> IF value.b THEN <<"True">> ELSE <<"False">>
      [] value.t = "none" -> <<"None">>
      [] value.t = "arr" ->
            <<"[">> \o JoinChars(<<",", " ">>, [n \in 1..Len(value.e) |-> ReprOf(value.e[n])])
                    \o <<"]">>
      [] value.t = "obj" ->
            LET ks == SetToSeq(DOMAIN value.m)
            IN <<"{">> \o JoinChars(<<",", " ">>,
                              [n \in 1..Len(ks) |->
                                  <<"'">> \o ks[n] \o <<"'", ":", " ">> \o ReprOf(value.m[ks[n]])])
                       \o <<"}">>

\* str(value): a text is itself, everything else is its repr
StrOf(value) == IF value.t = "str" THEN value.s ELSE ReprOf(value)

RECURSIVE NatOf(_)
\* int(name) for a name made of digits
NatOf(name) ==
    IF name = <<>> THEN 0
    ELSE 10 * NatOf(SubSeq(name, 1, Len(name) - 1))
         + (CHOOSE d \in 0..9 : DigitChars[d + 1] = name[Len(name)])

IsDigits(name) ==
    name # <<>> /\ \A n \in 1..Len(name) : \E d \in 1..10 : DigitChars[d] = name[n]

\* the value a replacement field stands for: the first part of the field,
\* up to a ".", is an automatic or explicit position in posargs or a name in
\* kwargs; what follows the "." is an attribute, which no JSON value has
str_format_field(field, posargs, kwargs, auto) ==
    LET parts == Split(field, ".")
        name == parts[1].s
        first == IF name = <<>> THEN
                     IF auto < Len(posargs) THEN Ok(posargs[auto + 1])
                     ELSE Raise("IndexError")
                 ELSE IF IsDigits(name) THEN
                     IF NatOf(name) < Len(posargs) THEN Ok(posargs[NatOf(name) + 1])
                     ELSE Raise("IndexError")
                 ELSE IF name \in DOMAIN kwargs THEN Ok(kwargs[name])
                 ELSE Raise("KeyError")
    IN IF ~first.ok THEN first
       ELSE IF Len(parts) > 1 THEN Raise("AttributeError")
       ELSE first

\* position of the first "}" of chars, 0 when there is none
FirstClose(chars) ==
    IF \E n \in 1..Len(chars) : chars[n] = "}"
    THEN CHOOSE n \in 1..Len(chars) :
             chars[n] = "}" /\ \A m \in 1..(n - 1) : chars[m] # "}"
    ELSE 0

RECURSIVE str_format_from(_, _, _, _)
\* string.format(*posargs, **kwargs), scanned left to right: "{{" and "}}"
\* are braces, "{field}" is replaced by str() of the field's value, a lone
\* brace is a ValueError (conversions "!" and format specs ":" are not
\* modelled)
str_format_from(chars, posargs, kwargs, auto) ==
    IF chars = <<>> THEN Ok(<<>>)
    ELSE LET c == Head(chars)
             rest == Tail(chars)
             after(lit, more) == IF more.ok THEN Ok(lit \o more.val) ELSE more
         IN IF c = "{" THEN
                IF rest # <<>> /\ Head(rest) = "{"
                THEN after(<<"{">>, str_format_from(Tail(rest), posargs, kwargs, auto))
                ELSE LET close == FirstClose(rest)
                     IN IF close = 0
                        THEN RaiseMsg("ValueError", "Single '{' encountered in format string")
                        ELSE LET field == SubSeq(rest, 1, close - 1)
                                 value == str_format_field(field, posargs, kwargs, auto)
                             IN IF ~value.ok THEN value
                                ELSE after(StrOf(value.val),
                                           str_format_from(
                                               SubSeq(rest, close + 1, Len(rest)), posargs, kwargs,
                                               IF Split(field, ".")[1].s = <<>>
                                               THEN auto + 1 ELSE auto))
            ELSE IF c = "}" THEN
                IF rest # <<>> /\ Head(rest) = "}"
                THEN after(<<"}">>, str_format_from(Tail(rest), posargs, kwargs, auto))
                ELSE RaiseMsg("ValueError", "Single '}' encountered in format string")
            ELSE after(<<c>>, str_format_from(rest, posargs, kwargs, auto))

str_format(string, posargs, kwargs) == str_format_from(string, posargs, kwargs, 0)


-----------------------------------------------------------------------------
(* parsing.DisplayString: construction from a JSON definition *)

DefaultDS == [ds |-> "DefaultDS"]
StringDS(string) == [ds |-> "StringDS", string |-> StrOf(string)]

\* DisplayString.CLASSES in the order used by the specification's list:
\* Table, ForEach, IfKeyPresent, TypeDispatch
CLASSES_ListedOrder ==
    <<[keywords |-> {<<"key">>, <<"table">>}, class_ |-> "TableDS"],
      [keywords |-> {<<"forall">>, <<"display_string">>}, class_ |-> "ForallDS"],
      [keywords |-> {<<"if_key">>, <<"display_string">>}, class_ |-> "IfKeyDS"],
      [keywords |-> {<<"if_json_type">>, <<"json_value">>, <<"json_array">>,
                     <<"json_object">>}, class_ |-> "JsonTypeDS"]>>

\* DisplayString.CLASSES: __init_subclass__ appends (KEYWORDS, cls) as each
\* subclass is defined, so the order is that of the class statements
CLASSES ==
    <<[keywords |-> {<<"if_key">>, <<"display_string">>}, class_ |-> "IfKeyDS"],
      [keywords |-> {<<"if_json_type">>, <<"json_value">>, <<"json_array">>,
                     <<"json_object">>}, class_ |-> "JsonTypeDS"],
      [keywords |-> {<<"key">>, <<"table">>}, class_ |-> "TableDS"],
      [keywords |-> {<<"forall">>, <<"display_string">>}, class_ |-> "ForallDS"]>>

\* the first class of CLASSES all of whose keywords are keys of the
\* definition (0 when there is none)
MatchingClass(json_kw) ==
    IF \E n \in 1..Len(CLASSES) : CLASSES[n].keywords \subseteq json_kw
    THEN CHOOSE n \in 1..Len(CLASSES) :
             /\ CLASSES[n].keywords \subseteq json_kw
             /\ \A m \in 1..(n - 1) : ~(CLASSES[m].keywords \subseteq json_kw)
    ELSE 0

RECURSIVE DisplayString_from_json(_)
RECURSIVE from_json_each(_)
RECURSIVE from_json_class(_, _)

\* [from_json(sub_json) for sub_json in definitions]: the first failing
\* construction ends the comprehension
from_json_each(definitions) ==
    IF definitions = <<>> THEN Ok(<<>>)
    ELSE LET first == DisplayString_from_json(Head(definitions))
         IN IF ~first.ok THEN first
            ELSE LET others == from_json_each(Tail(definitions))
                 IN IF ~others.ok THEN others ELSE Ok(<<first.val>> \o others.val)

\* class_(json_obj) for the four classes registered in CLASSES
from_json_class(class_, json_obj) ==
    LET m == json_obj.m
    IN CASE class_ = "IfKeyDS" ->
              LET display_string == DisplayString_from_json(m[<<"display_string">>])
              IN IF ~display_string.ok THEN display_string
                 ELSE Ok([ds |-> "IfKeyDS", key |-> m[<<"if_key">>],
                          display_string |-> display_string.val])
         [] class_ = "JsonTypeDS" ->
              \* the three definitions are built in the iteration order of a
              \* set; the definitions tried here fail alike when several fail
              LET subs == from_json_each(<<m[<<"json_value">>], m[<<"json_array">>],
                                          m[<<"json_object">>]>>)
              IN IF ~subs.ok THEN subs
                 ELSE Ok([ds |-> "JsonTypeDS", key |-> m[<<"if_json_type">>],
                          table |-> [json_value |-> subs.val[1], json_array |-> subs.val[2],
                                     json_object |-> subs.val[3]]])
         [] class_ = "TableDS" ->
              IF m[<<"table">>].t # "obj" THEN Raise("AttributeError")
              ELSE LET keys == SetToSeq(DOMAIN m[<<"table">>].m)
                       subs == from_json_each([n \in 1..Len(keys) |-> m[<<"table">>].m[keys[n]]])
                   IN IF ~subs.ok THEN subs
                      ELSE IF <<>> \notin DOMAIN m[<<"table">>].m
                      THEN RaiseMsg("ValueError",
                               "table display_string requires a default under the empty key")
                      ELSE Ok([ds |-> "TableDS", key |-> m[<<"key">>],
                               table |-> [k \in DOMAIN m[<<"table">>].m |->
                                   subs.val[CHOOSE n \in 1..Len(keys) : keys[n] = k]]])
         [] class_ = "ForallDS" ->
              LET display_string == DisplayString_from_json(m[<<"display_string">>])
              IN IF ~display_string.ok THEN display_string
                 ELSE Ok([ds |-> "ForallDS", key |-> m[<<"forall">>],
                          display_string |-> display_string.val,
                          sep |-> IF <<"separator">> \in DOMAIN m
                                  THEN m[<<"separator">>] ELSE JStr(<<>>)])

\* DisplayString.from_json: json.Type(json_obj) is evaluated for every
\* definition, None included; the object built gets its definition attached
DisplayString_from_json(json_obj) ==
    LET type_ == TypeOf(json_obj)
        obj == IF ~type_.ok THEN type_
               ELSE IF type_.val = "Value" THEN Ok(StringDS(json_obj))
               ELSE IF type_.val = "Array" THEN
                   LET display_strings == from_json_each(json_obj.e)
                   IN IF ~display_strings.ok THEN display_strings
                      ELSE Ok([ds |-> "ArrayDS", display_strings |-> display_strings.val])
               ELSE LET n == MatchingClass(DOMAIN json_obj.m)
                    IN IF n = 0
                       THEN RaiseMsg("ValueError", "No display_string object matches the keywords")
                       ELSE from_json_class(CLASSES[n].class_, json_obj)
    IN IF ~obj.ok THEN obj
       ELSE Ok([k \in DOMAIN obj.val \cup {"definition"} |->
                   IF k = "definition" THEN json_dumps(json_obj, 4) ELSE obj.val[k]])


-----------------------------------------------------------------------------
(* parsing.DisplayString: format *)

\* the text format() returns when _format raised
ErrorPayload(err, json_obj, definition) ==
    <<[t |-> "error", err |-> err.exc, json_value |-> json_dumps(json_obj, 4),
       definition |-> definition]>>

\* ".".join(str(k) for k in key) for a key of the flattened record
DottedKey(key) == JoinChars(<<".">>, [n \in 1..Len(key) |-> StrOf(key[n])])

\* {dotted key: value for (key, value) in flat}: a later pair replaces an
\* earlier one of the same dotted key
StringDS_kwargs(flat) ==
    [name \in {DottedKey(flat[n].k) : n \in 1..Len(flat)} |->
        flat[CHOOSE n \in 1..Len(flat) :
                 /\ DottedKey(flat[n].k) = name
                 /\ \A m \in (n + 1)..Len(flat) : DottedKey(flat[m].k) # name].v]

RECURSIVE JoinTexts(_, _)
\* sep.join(texts)
JoinTexts(sep, texts) ==
    IF texts = <<>> THEN <<>>
    ELSE IF Len(texts) = 1 THEN texts[1]
    ELSE texts[1] \o sep \o JoinTexts(sep, Tail(texts))

\* `except Exception as err: return <payload>` around a call that gave r
OrPayload(r, json_obj, definition) ==
    IF r.ok THEN r ELSE Ok(ErrorPayload(r, json_obj, definition))

\* a list comprehension, one item at a time: the first item that raises
\* ends it
Comprehend(first, others) ==
    IF ~first.ok THEN first
    ELSE IF ~others.ok THEN others
    ELSE Ok(<<first.val>> \o others.val)

RECURSIVE DisplayString_format(_, _)
RECURSIVE DisplayString__format(_, _)
RECURSIVE format_each(_, _)
RECURSIVE format_on_each(_, _)

\* format() with `except Exception` narrowed to `except KeyError`
DisplayString_format_KeyErrorOnly(self, json_obj) ==
    LET r == DisplayString__format(self, json_obj)
    IN IF r.ok \/ r.exc # "KeyError" THEN r
       ELSE Ok(ErrorPayload(r, json_obj, self.definition))

\* DisplayString.format: the text of _format, or the error payload when
\* _format raised
DisplayString_format(self, json_obj) ==
    OrPayload(DisplayString__format(self, json_obj), json_obj, self.definition)

\* [ds.format(json_obj) for ds in display_strings]
format_each(display_strings, json_obj) ==
    IF display_strings = <<>> THEN Ok(<<>>)
    ELSE Comprehend(DisplayString_format(Head(display_strings), json_obj),
                    format_each(Tail(display_strings), json_obj))

\* [display_string.format(e) for e in items]
format_on_each(display_string, items) ==
    IF items = <<>> THEN Ok(<<>>)
    ELSE Comprehend(DisplayString_format(display_string, Head(items)),
                    format_on_each(display_string, Tail(items)))

\* the _format method of each class
DisplayString__format(self, json_obj) ==
    CASE self.ds = "DefaultDS" -> Ok(json_dumps(json_obj, 2))
      [] self.ds = "StringDS" ->
            LET type_ == TypeOf(json_obj)
                text(r) == IF r.ok THEN Ok(Text(r.val)) ELSE r
            IN IF ~type_.ok THEN type_
               ELSE IF type_.val = "Object" THEN
                   LET flat == flatten(json_obj)
                   IN IF ~flat.ok THEN flat
                      ELSE text(str_format(self.string, <<>>, StringDS_kwargs(flat.val)))
               ELSE IF type_.val = "Array"
               THEN text(str_format(self.string, json_obj.e, EmptyMap))
               ELSE text(str_format(self.string, <<>>, <<"value">> :> json_obj))
      [] self.ds = "ArrayDS" ->
            LET texts == format_each(self.display_strings, json_obj)
            IN IF ~texts.ok THEN texts ELSE Ok(JoinTexts(<<>>, texts.val))
      [] self.ds = "IfKeyDS" ->
            LET present == jsonplus_has(json_obj, self.key, "None", ".")
            IN IF ~present.ok THEN present
               ELSE IF present.val THEN DisplayString_format(self.display_string, json_obj)
               ELSE Ok(<<>>)
      [] self.ds = "JsonTypeDS" ->
            LET present == jsonplus_has(json_obj, self.key, "None", ".")
            IN IF ~present.ok THEN present
               ELSE IF present.val THEN
                   LET value == jsonplus_get(json_obj, self.key, "None", ".")
                       t == IF value.ok THEN TypeOf(value.val) ELSE value
                   IN IF ~t.ok THEN t
                      ELSE IF t.val = "Value"
                      THEN DisplayString_format(self.table.json_value, json_obj)
                      ELSE IF t.val = "Array"
                      THEN DisplayString_format(self.table.json_array, json_obj)
                      ELSE DisplayString_format(self.table.json_object, json_obj)
               ELSE Raise("KeyError")
      [] self.ds = "TableDS" ->
            LET present == jsonplus_has(json_obj, self.key, "None", ".")
            IN IF ~present.ok THEN present
               ELSE LET value == jsonplus_get(json_obj, self.key, "None", ".")
                    IN IF present.val /\ ~value.ok THEN value
                       \* `value in self.table`: an unhashable value raises
                       \* inside the try and the default is used
                       ELSE IF present.val /\ value.val.t = "str"
                               /\ value.val.s \in DOMAIN self.table
                       THEN DisplayString_format(self.table[value.val.s], json_obj)
                       ELSE DisplayString_format(self.table[<<>>], json_obj)
      [] self.ds = "ForallDS" ->
            LET t == TypeOf(json_obj)
                joined(texts) == IF texts.ok THEN Ok(JoinTexts(Text(self.sep.s), texts.val))
                                 ELSE texts
            IN IF ~t.ok THEN t
               ELSE IF t.val = "Array" THEN
                   IF self.sep.t # "str" THEN Raise("AttributeError")
                   ELSE joined(format_on_each(self.display_string, json_obj.e))
               ELSE IF t.val = "Object" THEN
                   LET present == jsonplus_has(json_obj, self.key, "None", ".")
                   IN IF ~present.ok THEN present
                      ELSE IF present.val THEN
                          IF self.sep.t # "str" THEN Raise("AttributeError")
                          ELSE LET value == jsonplus_get(json_obj, self.key, "None", ".")
                                   items == IF value.ok THEN IterItems(value.val) ELSE value
                               IN IF ~items.ok THEN items
                                  ELSE joined(format_on_each(self.display_string, items.val))
                      ELSE Ok(<<>>)
               ELSE RaiseMsg("ValueError", "ERROR: cannot use forall display string on value")

\* get_display(display_string, json_obj): the cached text when the record
\* holds one, otherwise the formatted text, which is stored in the record
CACHE_KEY == <<"__CACHED_DISPLAY_STRING__">>

\* the text stored as the only key of the record
StoreDisplay_Alone(text, json_obj) ==
    [text |-> text,
     json_obj |-> IF text.ok THEN JObj(CACHE_KEY :> JStr(text.val)) ELSE json_obj]

\* json_obj[CACHE_KEY] = text, when computing text did not raise
StoreDisplay(text, json_obj) ==
    [text |-> text,
     json_obj |-> IF text.ok
                  THEN JObj([k \in DOMAIN json_obj.m \cup {CACHE_KEY} |->
                               IF k = CACHE_KEY THEN JStr(text.val) ELSE json_obj.m[k]])
                  ELSE json_obj]

\* get_display without the test of the cache
get_display_Uncached(display_string, json_obj) ==
    StoreDisplay(DisplayString_format(display_string, json_obj), json_obj)

get_display(display_string, json_obj) ==
    IF CACHE_KEY \in DOMAIN json_obj.m
    THEN [text |-> Ok(json_obj.m[CACHE_KEY].s), json_obj |-> json_obj]
    ELSE StoreDisplay(DisplayString_format(display_string, json_obj), json_obj)


-----------------------------------------------------------------------------
(* Specification of the display strings: a definition is parsed by
   DisplayString.from_json and the display string is formatted on a record,
   alone or as the rendering of a result list *)

StrA == JStr(<<"a">>)
StrZ == JStr(<<"z">>)
TemplateLeaves == {StrA, StrZ, JInt(7)}

\* what a record holds under "type" and under "tags"
TypeValues ==
    TemplateLeaves \cup {None, JObj(<<"u">> :> StrA), JArr(<<StrA>>)}
TagsValues ==
    {JArr(e) : e \in SeqsUpTo(TemplateLeaves, MaxArrayLen)}
    \cup {StrA, JObj(<<"u">> :> JArr(<<StrA, StrZ>>)), JArr(<<JArr(<<JInt(7)>>)>>)}

ObjectRecords ==
    {JObj(m) : m \in {f \in UNION {[D -> TypeValues \cup TagsValues] :
                                      D \in SUBSET {<<"type">>, <<"tags">>}} :
                         /\ <<"type">> \in DOMAIN f => f[<<"type">>] \in TypeValues
                         /\ <<"tags">> \in DOMAIN f => f[<<"tags">>] \in TagsValues}}

TemplateRecords ==
    ObjectRecords
    \cup TemplateLeaves \cup {None}
    \cup {JArr(e) : e \in SeqsUpTo(TemplateLeaves, MaxArrayLen)}
    \cup {JArr(<<JArr(<<JInt(7)>>), JObj(<<"u">> :> StrA)>>)}

\* literal definitions
LitAlpha == JStr(<<"Alpha">>)
LitUnknown == JStr(<<"Unknown">>)
LitValue == JStr(<<"#", "{", "value", "}">>)
LitType == JStr(<<"{", "type", "}">>)
LitNested == JStr(<<"{", "type", ".", "u", "}">>)
LitIndexed == JStr(<<"{", "tags", ".", "0", "}">>)
LitPositional == JStr(<<"{", "0", "}", "-", "{", "1", "}">>)
LitMissing == JStr(<<"{", "nokey", "}">>)
Literals ==
    {LitAlpha, LitValue, LitType, LitNested, LitIndexed, LitPositional, LitMissing, JInt(7)}

KeyType == JStr(<<"type">>)
KeyTypeU == JStr(<<"type", ".", "u">>)
KeyTags == JStr(<<"tags">>)
KeyTagsU == JStr(<<"tags", ".", "u">>)

TableAlpha == JObj((<<"a">> :> LitAlpha) @@ (<<>> :> LitUnknown))
Tables ==
    {TableAlpha,
     JObj(<<"a">> :> LitAlpha),
     JObj((<<"a">> :> LitType) @@ (<<>> :> LitMissing)),
     JObj(EmptyMap),
     JArr(<<LitAlpha>>)}

TableSpecs ==
    {JObj((<<"key">> :> k) @@ (<<"table">> :> t)) : k \in {KeyType, KeyTypeU}, t \in Tables}

Separators == {JStr(<<",", " ">>), JInt(5)}
ForallSpecs ==
    {JObj((<<"forall">> :> k) @@ (<<"display_string">> :> d)) :
        k \in {KeyTags, KeyTagsU}, d \in {LitValue, LitAlpha}}
    \cup {JObj((<<"forall">> :> k) @@ (<<"display_string">> :> d) @@ (<<"separator">> :> sep)) :
        k \in {KeyTags, KeyTagsU}, d \in {LitValue, LitAlpha}, sep \in Separators}

IfKeySpecs ==
    {JObj((<<"if_key">> :> k) @@ (<<"display_string">> :> d)) :
        k \in {KeyType, KeyTypeU}, d \in {LitType, LitMissing}}

JsonTypeSpecs ==
    {JObj((<<"if_json_type">> :> k) @@ (<<"json_value">> :> LitType)
          @@ (<<"json_array">> :> a) @@ (<<"json_object">> :> LitAlpha)) :
        k \in {KeyType, KeyTags},
        a \in {JObj((<<"forall">> :> KeyTags) @@ (<<"display_string">> :> LitValue)),
               JObj(<<"foo">> :> JInt(7))}}

\* definitions holding the keywords of several classes at once, of one, of
\* none
AllKeywords ==
    (<<"key">> :> KeyType) @@ (<<"table">> :> TableAlpha)
    @@ (<<"forall">> :> KeyTags) @@ (<<"display_string">> :> LitValue)
    @@ (<<"if_key">> :> KeyType)
    @@ (<<"if_json_type">> :> KeyType) @@ (<<"json_value">> :> LitType)
    @@ (<<"json_array">> :> LitAlpha) @@ (<<"json_object">> :> LitUnknown)
MixedSpecs ==
    {JObj([k \in UNION {CLASSES[n].keywords : n \in S} |-> AllKeywords[k]]) :
        S \in SUBSET (1..Len(CLASSES))}
NoClassSpecs ==
    {JObj(<<"foo">> :> JInt(7)), JObj(<<"key">> :> KeyType),
     JObj(<<"display_string">> :> LitAlpha),
     JObj((<<"table">> :> TableAlpha) @@ (<<"forall">> :> KeyTags))}

ArraySpecs ==
    {JArr(<<>>), JArr(<<JStr(<<"[">>), LitType, JStr(<<"]">>)>>),
     JArr(<<LitAlpha, JObj(<<"foo">> :> JInt(7))>>)}

TemplateSpecs ==
    {None} \cup Literals \cup ArraySpecs \cup TableSpecs \cup ForallSpecs \cup IfKeySpecs
    \cup JsonTypeSpecs \cup MixedSpecs \cup NoClassSpecs

\* a second record of the result list
RenderCompanion == JObj((<<"type">> :> StrA) @@ (<<"tags">> :> JArr(<<StrA, StrZ>>)))

InitTemplate ==
    /\ data = <<>>
    /\ fields = <<>>
    /\ pc = "idle"
    /\ args \in [spec : TemplateSpecs, record : TemplateRecords]
    /\ ret = None

\* DisplayString.from_json(definition)
FromJson ==
    /\ pc = "idle"
    /\ pc' = "from_json"
    /\ ret' = DisplayString_from_json(args.spec)
    /\ UNCHANGED <<data, fields, args>>

\* display_string.format(record) on the display string just built
Format ==
    /\ pc = "from_json"
    /\ ret.ok
    /\ pc' = "format"
    /\ ret' = DisplayString_format(ret.val, args.record)
    /\ UNCHANGED <<data, fields, args>>

\* the rendering of AbstractSearchCallback.__call__ for the results
\* <<record, RenderCompanion>>: get_display on each, the texts joined by a
\* blank line and displayed; an exception is reported through show_error
Render ==
    /\ pc = "from_json"
    /\ ret.ok
    /\ args.record.t = "obj"
    /\ pc' = "render"
    /\ \E first \in {get_display(ret.val, args.record)},
          second \in {get_display(ret.val, RenderCompanion)} :
          IF ~first.text.ok
          THEN /\ data' = <<first.json_obj, RenderCompanion>>
               /\ ret' = [ok |-> FALSE, exc |-> first.text.exc, msg |-> "Error during search"]
          ELSE IF ~second.text.ok
          THEN /\ data' = <<first.json_obj, second.json_obj>>
               /\ ret' = [ok |-> FALSE, exc |-> second.text.exc, msg |-> "Error during search"]
          ELSE /\ data' = <<first.json_obj, second.json_obj>>
               /\ ret' = Ok(JoinTexts(Text(<<"\n", "\n">>), <<first.text.val, second.text.val>>))
    /\ UNCHANGED <<fields, args>>

NextTemplate == FromJson \/ Format \/ Render

SpecTemplate == InitTemplate /\ [][NextTemplate]_vars


-----------------------------------------------------------------------------
(* Claims about the display strings *)

\* the display string built from the definition of the current call
Template == DisplayString_from_json(args.spec)

KeywordsOf ==
    [TableDS |-> {<<"key">>, <<"table">>},
     ForallDS |-> {<<"forall">>, <<"display_string">>},
     IfKeyDS |-> {<<"if_key">>, <<"display_string">>},
     JsonTypeDS |-> {<<"if_json_type">>, <<"json_value">>, <<"json_array">>,
                     <<"json_object">>}]

\* the first class of `order` whose keywords are all among json_kw
FirstMatching(order, json_kw) ==
    IF \E n \in 1..Len(order) : KeywordsOf[order[n]] \subseteq json_kw
    THEN order[CHOOSE n \in 1..Len(order) :
                   /\ KeywordsOf[order[n]] \subseteq json_kw
                   /\ \A m \in 1..(n - 1) : ~(KeywordsOf[order[m]] \subseteq json_kw)]
    ELSE "none"

\* from_json on an Object follows the priority `order`, and `example` is
\* what the keys forall, if_key, display_string yield
SelectsBy(order, example) ==
    (pc = "from_json" /\ args.spec.t = "obj") =>
        LET class_ == FirstMatching(order, DOMAIN args.spec.m)
        IN /\ class_ = "none" => (~ret.ok /\ ret.exc = "ValueError")
           /\ (class_ # "none" /\ ret.ok) => ret.val.ds = class_
           /\ DOMAIN args.spec.m = {<<"forall">>, <<"if_key">>, <<"display_string">>} =>
                  (ret.ok /\ ret.val.ds = example)

\* C15 as stated: from_json on an Object picks the class by the key set
\* alone with the priority Table, ForEach, IfKeyPresent, TypeDispatch; the
\* keys forall, if_key, display_string yield ForEach; no matching signature
\* fails.
C15_ListedPriority ==
    SelectsBy(<<"TableDS", "ForallDS", "IfKeyDS", "JsonTypeDS">>, "ForallDS")

\* C15 amended: the priority is the order in which the classes are defined,
\* IfKeyPresent, TypeDispatch, Table, ForEach; the keys forall, if_key,
\* display_string yield IfKeyPresent; no matching signature fails with
\* ValueError.
C15_DefinitionOrderPriority ==
    SelectsBy(<<"IfKeyDS", "JsonTypeDS", "TableDS", "ForallDS">>, "IfKeyDS")

\* a definition holding the keywords of ForEach and of IfKeyPresent
C15_Witness ==
    /\ pc = "from_json"
    /\ args.spec.t = "obj"
    /\ DOMAIN args.spec.m = {<<"forall">>, <<"if_key">>, <<"display_string">>}
    /\ ret.ok
    /\ ret.val.ds = "IfKeyDS"

\* C16: with no definition (None), from_json succeeds and yields the Default
\* display string, whose format(record) is the JSON serialisation of the
\* record with an indent of 2.
C16_DefaultWhenAbsent ==
    /\ (pc = "from_json" /\ args.spec = None) => (ret.ok /\ ret.val.ds = "DefaultDS")
    /\ (pc = "format" /\ args.spec = None) => ret = Ok(json_dumps(args.record, 2))

RECURSIVE Classifies(_)
\* every value of the record, at any depth, is an Object, an Array or a
\* scalar
Classifies(v) ==
    CASE v.t = "obj" -> \A k \in DOMAIN v.m : Classifies(v.m[k])
      [] v.t = "arr" -> \A n \in 1..Len(v.e) : Classifies(v.e[n])
      [] OTHER -> v.t \in {"str", "int", "bool"}

RECURSIVE LeafAt(_, _)
\* the scalar found by following the segments of a dotted path through
\* Objects (by key) and Arrays (by index)
LeafAt(v, segs) ==
    IF segs = <<>> THEN
        IF v.t \in {"str", "int", "bool"} THEN Ok(v) ELSE Raise("no leaf")
    ELSE LET seg == Head(segs).s
         IN IF v.t = "obj" /\ seg \in DOMAIN v.m THEN LeafAt(v.m[seg], Tail(segs))
            ELSE IF v.t = "arr" /\ IsDigits(seg) /\ NatOf(seg) < Len(v.e)
            THEN LeafAt(v.e[NatOf(seg) + 1], Tail(segs))
            ELSE Raise("no leaf")

\* what the placeholder {field} stands for on a record: the leaf of that
\* dotted path (Object), the element of that position (Array), the record
\* itself for {value} (scalar)
PlaceholderValue(field, record) ==
    IF record.t = "obj" THEN LeafAt(record, Split(field, "."))
    ELSE IF record.t = "arr" THEN
        IF IsDigits(field) /\ NatOf(field) < Len(record.e)
        THEN Ok(record.e[NatOf(field) + 1]) ELSE Raise("no element")
    ELSE IF field = <<"value">> THEN Ok(record) ELSE Raise("no value")

RECURSIVE Substituted(_, _)
\* the literal with every placeholder replaced by its value; not ok when a
\* placeholder stands for nothing
Substituted(chars, record) ==
    IF chars = <<>> THEN Ok(<<>>)
    ELSE IF Head(chars) = "{" THEN
        LET close == FirstClose(Tail(chars))
            value == PlaceholderValue(SubSeq(chars, 2, close), record)
            rest == Substituted(SubSeq(chars, close + 2, Len(chars)), record)
        IN IF ~value.ok THEN value
           ELSE IF ~rest.ok THEN rest
           ELSE Ok(StrOf(value.val) \o rest.val)
    ELSE LET rest == Substituted(Tail(chars), record)
         IN IF ~rest.ok THEN rest ELSE Ok(<<Head(chars)>> \o rest.val)

\* C17: a literal formatted on an Object replaces every placeholder naming
\* the dotted path of a leaf, top-level or nested, by the leaf's value; on an
\* Array it replaces {0}, {1}, ... by the elements; on a scalar it replaces
\* {value} by the record.
C17_LiteralSubstitutes ==
    (/\ pc = "format"
     /\ args.spec \in Literals
     /\ Classifies(args.record)
     /\ Substituted(StrOf(args.spec), args.record).ok) =>
        ret = Ok(Text(Substituted(StrOf(args.spec), args.record).val))

\* C18: a Table renders with table[v] when the record holds v at key and v
\* is a key of the table, and with table[""] otherwise (v no key of the
\* table, or key absent); a table without "" cannot be built.  With the
\* table a -> Alpha, "" -> Unknown and key type: type a renders Alpha, type z
\* and no type render Unknown.
C18_TableRenders ==
    /\ (pc = "from_json" /\ args.spec \in TableSpecs
           /\ args.spec.m[<<"table">>].t = "obj"
           /\ <<>> \notin DOMAIN args.spec.m[<<"table">>].m) => ~ret.ok
    /\ (pc = "format" /\ args.spec \in TableSpecs /\ args.record.t = "obj"
           /\ Classifies(args.record)) =>
           LET self == Template.val
               v == Reach(args.record, KeyList(self.key, "."))
           IN ret = IF v.ok /\ v.val.t = "str" /\ v.val.s \in DOMAIN self.table
                    THEN DisplayString_format(self.table[v.val.s], args.record)
                    ELSE DisplayString_format(self.table[<<>>], args.record)
    /\ (pc = "format" /\ args.spec = JObj((<<"key">> :> KeyType) @@ (<<"table">> :> TableAlpha))
           /\ args.record.t = "obj" /\ Classifies(args.record)) =>
           ret = IF <<"type">> \in DOMAIN args.record.m /\ args.record.m[<<"type">>] = StrA
                 THEN Ok(Text(<<"Alpha">>)) ELSE Ok(Text(<<"Unknown">>))

\* C19: a ForEach formatted on an Array applies the sub-display-string to
\* every element; on an Object, to every element of the array found at key,
\* and gives the empty text when key is absent; the texts are joined in
\* element order by the separator (empty by default).
C19_ForEachJoins ==
    (/\ pc = "format"
     /\ args.spec \in ForallSpecs
     /\ Classifies(args.record)
     /\ <<"separator">> \in DOMAIN args.spec.m => args.spec.m[<<"separator">>].t = "str") =>
        LET self == Template.val
            sep == IF <<"separator">> \in DOMAIN args.spec.m
                   THEN args.spec.m[<<"separator">>].s ELSE <<>>
            each(items) == Ok(JoinTexts(Text(sep),
                               [n \in 1..Len(items) |->
                                   DisplayString_format(self.display_string, items[n]).val]))
            found == Reach(args.record, KeyList(self.key, "."))
        IN /\ args.record.t = "arr" => ret = each(args.record.e)
           /\ (args.record.t = "obj" /\ ~found.ok) => ret = Ok(<<>>)
           /\ (args.record.t = "obj" /\ found.ok /\ found.val.t = "arr") =>
                  ret = each(found.val.e)

\* the error payload format returns for the exception exc
PayloadOf(exc) ==
    Ok(<<[t |-> "error", err |-> exc, json_value |-> json_dumps(args.record, 4),
          definition |-> json_dumps(args.spec, 4)]>>)

\* C20: format never raises: it returns the text of _format, or, when
\* _format fails, the error payload holding the error, the JSON of the
\* record and the definition of the display string; so with a TypeDispatch
\* whose key is absent, a ForEach on a scalar, a literal naming a missing
\* placeholder and a record that does not classify.  Rendering a result list
\* displays a text for every record.
C20_FormatNeverRaises ==
    /\ pc = "format" =>
           LET r == DisplayString__format(Template.val, args.record)
           IN /\ ret.ok
              /\ r.ok => ret = r
              /\ ~r.ok => ret = PayloadOf(r.exc)
              /\ (Template.val.ds = "JsonTypeDS" /\ args.record.t = "obj"
                     /\ Template.val.key.s \notin DOMAIN args.record.m) =>
                     ret = PayloadOf("KeyError")
              /\ (Template.val.ds = "ForallDS" /\ args.record.t \in {"str", "int"}) =>
                     ret = PayloadOf("ValueError")
              /\ (args.spec = LitMissing /\ args.record.t \in {"str", "int", "arr"}) =>
                     ret = PayloadOf("KeyError")
              /\ (Template.val.ds = "StringDS" /\ args.record = None) =>
                     ret = PayloadOf("NotAJsonTypeError")
    /\ pc = "render" =>
           /\ ret.ok
           /\ Len(data) = 2
           /\ \A n \in 1..2 : CACHE_KEY \in DOMAIN data[n].m

\* a TypeDispatch formatted on a record without its key: the payload
C20_Witness ==
    /\ pc = "format"
    /\ Template.val.ds = "JsonTypeDS"
    /\ args.record = JObj(<<"tags">> :> JArr(<<StrA>>))
    /\ Template.val.key = KeyType
    /\ ret = PayloadOf("KeyError")

-----------------------------------------------------------------------------
(* Specification of the display-string cache: get_display is called again
   and again on one record object, each time with any display string.
   data holds the record object; args keeps the record as it was loaded,
   the display string of the last call, the number of calls, the number of calls in which format() ran, and the
   text the first call returned *)

\* the display strings get_display is called with: the default one and one
\* of each kind built by from_json
CacheDefinitions ==
    {LitType, LitMissing,
     JObj((<<"key">> :> KeyType) @@ (<<"table">> :> TableAlpha)),
     JObj((<<"forall">> :> KeyTags) @@ (<<"display_string">> :> LitValue))}
CacheTemplates ==
    {DefaultDS} \cup {DisplayString_from_json(d).val : d \in CacheDefinitions}

\* records as loaded; one of them has a data key equal to the reserved key
CacheRecords ==
    {JObj(EmptyMap),
     JObj(<<"type">> :> StrA),
     JObj(<<"type">> :> StrZ),
     JObj(<<"tags">> :> JArr(<<StrA, StrZ>>)),
     JObj((<<"type">> :> StrA) @@ (<<"tags">> :> JArr(<<JInt(7)>>))),
     JObj((<<"type">> :> StrA) @@ (CACHE_KEY :> JStr(Text(<<"Alpha">>))))}

\* `if CACHE_KEY not in json_obj`: whether get_display calls format()
get_display_formats(json_obj) == CACHE_KEY \notin DOMAIN json_obj.m

InitCache ==
    /\ data \in {<<r>> : r \in CacheRecords}
    /\ fields = <<>>
    /\ pc = "idle"
    /\ args = [record |-> data[1], display_string |-> None, calls |-> 0, formats |-> 0,
               first |-> None]
    /\ ret = None

\* get_display(display_string, record)
GetDisplay ==
    /\ args.calls < MaxCalls
    /\ pc' = "get_display"
    /\ \E display_string \in CacheTemplates :
       \E out \in {get_display(display_string, data[1])} :
          /\ data' = <<out.json_obj>>
          /\ ret' = out.text
          /\ args' = [args EXCEPT !.display_string = display_string,
                                  !.calls = @ + 1,
                                  !.formats = IF get_display_formats(data[1]) THEN @ + 1 ELSE @,
                                  !.first = IF args.calls = 0 THEN out.text ELSE @]
    /\ UNCHANGED fields

NextCache == GetDisplay

SpecCache == InitCache /\ [][NextCache]_vars

\* C21: over any sequence of get_display calls on one record object the
\* formatting runs at most once, and only in the first call; after the
\* first call the record holds, under the reserved key, the text that call
\* returned, and every later call returns that text, whatever display
\* string it is given.  On a record loaded without the reserved key the
\* first call does run the formatting, on the record as loaded.
C21_FormatsOnce ==
    pc = "get_display" =>
        /\ args.formats <= 1
        /\ args.first.ok /\ ret = args.first
        /\ CACHE_KEY \in DOMAIN data[1].m
        /\ data[1].m[CACHE_KEY] = JStr(args.first.val)
        /\ get_display_formats(args.record) =>
              /\ args.formats = 1
              /\ \E display_string \in CacheTemplates :
                    args.first = DisplayString_format(display_string, args.record)

\* several calls were made on a record loaded without the reserved key, the
\* first with the table, the last with the default display string
C21_Witness ==
    /\ pc = "get_display"
    /\ args.calls = MaxCalls
    /\ get_display_formats(args.record)
    /\ args.formats = 1
    /\ args.display_string = DefaultDS
    /\ ret = Ok(Text(<<"Alpha">>))

-----------------------------------------------------------------------------
(* Specification of two get_display calls on one record running in two
   threads: the interpreter may switch threads between the test of the
   cache, the call of format, the store into the record and the read of the
   returned value.  data holds the record object, pc the position of each
   thread, args the display string, the record as loaded and the text each
   thread has computed, ret what each thread returned *)

Threads == {1, 2}

InitRace ==
    /\ data \in {<<r>> : r \in {c \in CacheRecords : get_display_formats(c)}}
    /\ fields = <<>>
    /\ pc = [t \in Threads |-> "call"]
    /\ args \in {[display_string |-> d, record |-> data[1], text |-> [t \in Threads |-> None]] :
                    d \in CacheTemplates}
    /\ ret = [t \in Threads |-> None]

\* `if CACHE_KEY not in json_obj:`
RaceTest(t) ==
    /\ pc[t] = "call"
    /\ pc' = [pc EXCEPT ![t] = IF get_display_formats(data[1]) THEN "format" ELSE "return"]
    /\ UNCHANGED <<data, fields, args, ret>>

\* `display_string.format(json_obj)`, on the record as it is now
RaceFormat(t) ==
    /\ pc[t] = "format"
    /\ pc' = [pc EXCEPT ![t] = "store"]
    /\ args' = [args EXCEPT !.text[t] = DisplayString_format(args.display_string, data[1])]
    /\ UNCHANGED <<data, fields, ret>>

\* `json_obj[CACHE_KEY] = ...`
RaceStore(t) ==
    /\ pc[t] = "store"
    /\ pc' = [pc EXCEPT ![t] = "return"]
    /\ data' = <<StoreDisplay(args.text[t], data[1]).json_obj>>
    /\ UNCHANGED <<fields, args, ret>>

\* `return json_obj[CACHE_KEY]`
RaceReturn(t) ==
    /\ pc[t] = "return"
    /\ pc' = [pc EXCEPT ![t] = "done"]
    /\ ret' = [ret EXCEPT ![t] = Ok(data[1].m[CACHE_KEY].s)]
    /\ UNCHANGED <<data, fields, args>>

NextRace == \E t \in Threads : RaceTest(t) \/ RaceFormat(t) \/ RaceStore(t) \/ RaceReturn(t)

SpecRace == InitRace /\ [][NextRace]_vars

\* C22: when two get_display calls on one record interleave, both threads
\* compute the same text, so once both have stored, the cache holds the
\* text a single first call would have produced on the record as loaded,
\* for every display string.
C22_RaceIdempotent ==
    (\A t \in Threads : pc[t] \in {"return", "done"}) =>
        /\ data[1].m[CACHE_KEY] =
              JStr(DisplayString_format(args.display_string, args.record).val)
        /\ \A t \in Threads : args.text[t] # None =>
              args.text[t] = DisplayString_format(args.display_string, args.record)

-----------------------------------------------------------------------------
(* parsing.GuiDataBase: the field specifications of a document.  A call
   that changes its argument returns the argument as it leaves it beside
   what it returned or raised: [ret |-> ..., json_obj |-> ...] *)

MISSING == [t |-> "MISSING"]
MAYBE == "MAYBE"

\* isinstance(v, type_) for the types coerce is called with; a bool is an
\* int
IsInstance(v, type_) ==
    CASE type_ = "str" -> v.t = "str"
      [] type_ = "bool" -> v.t = "bool"
      [] type_ = "int" -> v.t \in {"int", "bool"}

NocaseList(names) == [t |-> "NocaseList", names |-> names]

\* GuiDataBase.OPS and GuiDataBase.COMP: the aliases of every Operator and
\* of every Comparison, in a NocaseList
OPS == NocaseList(UNION {OperatorAliases[o] : o \in DOMAIN OperatorAliases})
COMP == NocaseList(UNION {ComparisonAliases[c] : c \in DOMAIN ComparisonAliases})

\* `v in valid_values` for a NocaseList: a str is looked up lowercased
NocaseList_contains(valid_values, v) ==
    v.t = "str" /\ Len(v.s) = 1 /\ Lower(v.s[1]) \in valid_values.names

\* GuiDataBase.coerce(json_obj, key, type_, default, is_array,
\* valid_values); valid_values is None or a NocaseList of lowercase names,
\* is_array is "False", "True", "None" or MAYBE
GuiDataBase_coerce(json_obj, key, type_, default, is_array, valid_values) ==
    IF key \notin DOMAIN json_obj.m THEN
        [ret |-> IF default # MISSING THEN Ok(default) ELSE Raise("ValueError"),
         json_obj |-> json_obj]
    ELSE
        LET value == json_obj.m[key]
            popped == JObj([k \in DOMAIN json_obj.m \ {key} |-> json_obj.m[k]])
            jtype == TypeOf(value)
            coerced == IF value.t = "arr" THEN value.e ELSE <<value>>
            wrong_type == \E n \in 1..Len(coerced) : ~IsInstance(coerced[n], type_)
            not_valid == /\ valid_values # None
                         /\ \E n \in 1..Len(coerced) :
                               ~NocaseList_contains(valid_values, coerced[n])
        IN [json_obj |-> popped,
            ret |-> IF ~jtype.ok THEN jtype
                    ELSE IF jtype.val = "Object" THEN Raise("TypeError")
                    ELSE IF jtype.val = "Array" /\ is_array \in {"False", "None"}
                    THEN Raise("TypeError")
                    ELSE IF jtype.val = "Value" /\ is_array = "True" THEN Raise("TypeError")
                    ELSE IF wrong_type THEN Raise("TypeError")
                    ELSE IF not_valid THEN Raise("ValueError")
                    ELSE IF Len(coerced) = 1 THEN Ok(coerced[1])
                    ELSE Ok(JArr(coerced))]

\* one coerce call of a constructor
CoerceCall(key, type_, default, is_array, valid_values) ==
    [key |-> key, type_ |-> type_, default |-> default, is_array |-> is_array,
     valid_values |-> valid_values]

\* the value of one coerce call put before those of the calls after it
coerce_values(first, others) ==
    IF ~others.ret.ok THEN others
    ELSE [ret |-> Ok(<<first.ret.val>> \o others.ret.val), json_obj |-> others.json_obj]

RECURSIVE coerce_each(_, _)
RECURSIVE coerce_others(_, _)

\* the calls after a coerce call that gave first: none when it raised
coerce_others(first, calls) ==
    IF ~first.ret.ok THEN first
    ELSE coerce_values(first, coerce_each(first.json_obj, calls))

\* the coerce calls of a constructor, in order, on the same json_obj: the
\* first call that raises ends the constructor, and the keys popped so far
\* stay popped
coerce_each(json_obj, calls) ==
    IF calls = <<>> THEN [ret |-> Ok(<<>>), json_obj |-> json_obj]
    ELSE coerce_others(
             GuiDataBase_coerce(json_obj, Head(calls).key, Head(calls).type_,
                                Head(calls).default, Head(calls).is_array,
                                Head(calls).valid_values),
             Tail(calls))

\* the coerce calls of GuiDataBase.__init__ followed by those of the
\* subclass
GuiData_calls ==
    [Option |->
        <<CoerceCall(<<"name">>, "str", MISSING, "False", None),
          CoerceCall(<<"modes">>, "str", None, MAYBE, None),
          CoerceCall(<<"multi_selection">>, "bool", JBool(FALSE), "False", None),
          CoerceCall(<<"operator">>, "str", JStr(<<"or">>), "None", OPS)>>,
     Integer |->
        <<CoerceCall(<<"name">>, "str", MISSING, "False", None),
          CoerceCall(<<"modes">>, "str", None, MAYBE, None),
          CoerceCall(<<"listed">>, "int", JArr(<<>>), "True", None),
          CoerceCall(<<"comparison">>, "str", JStr(<<"eq">>), "None", COMP)>>,
     Text |->
        <<CoerceCall(<<"name">>, "str", MISSING, "False", None),
          CoerceCall(<<"modes">>, "str", None, MAYBE, None),
          CoerceCall(<<"operator">>, "str", JArr(<<JStr(<<"Any">>), JStr(<<"All">>)>>), "None", OPS),
          CoerceCall(<<"case">>, "bool", JArr(<<JBool(FALSE), JBool(TRUE)>>), "None", None)>>]

\* a Python set of JSON values
PySet(elements) == [t |-> "set", elements |-> elements]

\* self.modes after GuiDataBase.__init__: a list becomes the set of its
\* items, a str the set holding it, None stays None
GuiDataBase_modes(coerced) ==
    IF coerced.t = "arr" THEN PySet({coerced.e[n] : n \in 1..Len(coerced.e)})
    ELSE IF coerced.t = "str" THEN PySet({coerced})
    ELSE coerced

\* the object a constructor leaves when its coerce calls gave made: the
\* coerced options, and as field_spec the json_obj they were popped from
GuiData(class_, made) ==
    IF ~made.ret.ok THEN made
    ELSE [ret |-> Ok([class_ |-> class_,
                      name |-> made.ret.val[1],
                      modes |-> GuiDataBase_modes(made.ret.val[2]),
                      options |-> SubSeq(made.ret.val, 3, 4),
                      field_spec |-> made.json_obj]),
          json_obj |-> made.json_obj]

\* GuiDataBase.parse_json(json_obj): the constructor registered for
\* json_obj["type"] is run on json_obj
GuiDataBase_parse_json(json_obj) ==
    IF <<"type">> \notin DOMAIN json_obj.m THEN [ret |-> Raise("KeyError"), json_obj |-> json_obj]
    ELSE LET type_ == json_obj.m[<<"type">>]
         IN IF ~Hashable(type_) THEN [ret |-> Raise("TypeError"), json_obj |-> json_obj]
            ELSE IF ~(type_.t = "str" /\ Len(type_.s) = 1 /\ type_.s[1] \in DOMAIN GuiData_calls)
            THEN [ret |-> Raise("KeyError"), json_obj |-> json_obj]
            ELSE GuiData(type_.s[1], coerce_each(json_obj, GuiData_calls[type_.s[1]]))

RECURSIVE parse_nested_fields(_, _, _)

\* what parse_nested_fields leaves when it raises exc at an element that
\* it leaves as `element`
parse_nested_raised(exc, element, field_dict, field_geometry, rest) ==
    [ret |-> exc, field_dict |-> field_dict, field_geometry |-> field_geometry,
     field_nested_list |-> <<element>> \o rest]

\* the list as the loop leaves it: the element it has dealt with before
\* the rest
parse_nested_done(element, done) ==
    [done EXCEPT !.field_nested_list = <<element>> \o @]

\* lines 469-472: the element was an Array and the nested call gave nested
parse_nested_array(nested, field_geometry, rest) ==
    IF ~nested.ret.ok
    THEN parse_nested_raised(nested.ret, JArr(nested.field_nested_list), nested.field_dict,
                             field_geometry, rest)
    ELSE parse_nested_done(
             JArr(nested.field_nested_list),
             parse_nested_fields(nested.field_dict,
                                 Append(field_geometry, JArr(nested.field_geometry)), rest))

\* the Object branch without the test of line 475
parse_nested_object_NoTest(gui_data, field_dict, field_geometry, rest) ==
    IF ~gui_data.ret.ok
    THEN parse_nested_raised(gui_data.ret, gui_data.json_obj, field_dict, field_geometry, rest)
    ELSE parse_nested_done(
             gui_data.json_obj,
             parse_nested_fields(Append(field_dict, [name |-> gui_data.ret.val.name,
                                                     val |-> gui_data.ret.val]),
                                 Append(field_geometry, gui_data.ret.val.name), rest))

\* lines 474-478: the element was an Object and parse_json gave gui_data
parse_nested_object(gui_data, field_dict, field_geometry, rest) ==
    IF ~gui_data.ret.ok
    THEN parse_nested_raised(gui_data.ret, gui_data.json_obj, field_dict, field_geometry, rest)
    ELSE IF gui_data.ret.val.name \in Names(field_dict)
    THEN parse_nested_raised(RaiseMsg("ValueError", "Duplicated field name"),
                             gui_data.json_obj, field_dict, field_geometry, rest)
    ELSE parse_nested_done(
             gui_data.json_obj,
             parse_nested_fields(Append(field_dict, [name |-> gui_data.ret.val.name,
                                                     val |-> gui_data.ret.val]),
                                 Append(field_geometry, gui_data.ret.val.name), rest))

\* parse_nested_fields(field_dict, field_geometry, field_nested_list):
\* field_dict (an ordered mapping, name -> gui data) and field_geometry are
\* changed in place, and so are the specifications of the list, which the
\* constructors pop their options from.  An element that is neither an
\* Array nor an Object is passed over.
parse_nested_fields(field_dict, field_geometry, field_nested_list) ==
    IF field_nested_list = <<>>
    THEN [ret |-> Ok(<<field_dict, field_geometry>>), field_dict |-> field_dict,
          field_geometry |-> field_geometry, field_nested_list |-> <<>>]
    ELSE IF ~TypeOf(Head(field_nested_list)).ok
    THEN parse_nested_raised(TypeOf(Head(field_nested_list)), Head(field_nested_list),
                             field_dict, field_geometry, Tail(field_nested_list))
    ELSE IF TypeOf(Head(field_nested_list)).val = "Array"
    THEN parse_nested_array(parse_nested_fields(field_dict, <<>>, Head(field_nested_list).e),
                            field_geometry, Tail(field_nested_list))
    ELSE IF TypeOf(Head(field_nested_list)).val = "Object"
    THEN parse_nested_object(GuiDataBase_parse_json(Head(field_nested_list)),
                             field_dict, field_geometry, Tail(field_nested_list))
    ELSE parse_nested_done(Head(field_nested_list),
                           parse_nested_fields(field_dict, field_geometry,
                                               Tail(field_nested_list)))

-----------------------------------------------------------------------------
(* jsondb: the JSON form of fields and databases *)

\* FieldBase.to_json with the _add_json_values of the subclass: "optional"
\* is written only when it is true, "min" and "max" only when they are set
FieldBase_to_json(self) ==
    JObj((<<"type">> :> JStr(<<self.TYPE>>)) @@ (<<"key">> :> self.key)
         @@ (IF self.optional THEN <<"optional">> :> JBool(TRUE) ELSE EmptyMap)
         @@ (CASE self.TYPE = "Option" -> <<"values">> :> JArr(SetToSeq(self.values))
               [] self.TYPE = "Integer" ->
                     (IF self.min_ # None THEN <<"min">> :> self.min_ ELSE EmptyMap)
                     @@ (IF self.max_ # None THEN <<"max">> :> self.max_ ELSE EmptyMap)
               [] OTHER -> EmptyMap))

\* int(x) for the values a field is built from
IntOf(x) ==
    CASE x.t = "int" -> Ok(x)
      [] x.t = "bool" -> Ok(JInt(IF x.b THEN 1 ELSE 0))
      [] x.t = "str" -> IF IsDigits(x.s) THEN Ok(JInt(NatOf(x.s))) ELSE Raise("ValueError")
      [] OTHER -> Raise("TypeError")

\* the parameters of the constructor of each class, and those without a
\* default value
FieldParameters ==
    [Option |-> {<<"key">>, <<"values">>, <<"optional">>},
     Integer |-> {<<"key">>, <<"min_">>, <<"max_">>, <<"optional">>},
     Text |-> {<<"key">>, <<"optional">>}]

\* IntegerField.KEY_TRANSLATION.get(key, key); the other classes translate
\* nothing
KEY_TRANSLATION(class_, key) ==
    IF class_ = "Integer" /\ key = <<"min">> THEN <<"min_">>
    ELSE IF class_ = "Integer" /\ key = <<"max">> THEN <<"max_">>
    ELSE key

\* cls._make(json_repr): cls(**kwargs) with the translated keys of
\* json_repr other than "type"
FieldBase__make(class_, json_repr) ==
    LET keys == DOMAIN json_repr.m \ {<<"type">>}
        names == {KEY_TRANSLATION(class_, k) : k \in keys}
        kwargs == [n \in names |->
                      json_repr.m[CHOOSE k \in keys : KEY_TRANSLATION(class_, k) = n]]
        optional == IF <<"optional">> \in names THEN Truthy(kwargs[<<"optional">>]) ELSE TRUE
        argument(n) == IF n \in names THEN kwargs[n] ELSE None
        min_ == IF argument(<<"min_">>) = None THEN Ok(None) ELSE IntOf(argument(<<"min_">>))
        max_ == IF argument(<<"max_">>) = None THEN Ok(None) ELSE IntOf(argument(<<"max_">>))
        values == IF <<"values">> \in names THEN IterItems(kwargs[<<"values">>]) ELSE Ok(<<>>)
    IN IF ~(names \subseteq FieldParameters[class_]) \/ <<"key">> \notin names
       THEN Raise("TypeError")
       ELSE CASE class_ = "Option" ->
                   IF ~values.ok THEN values
                   ELSE IF \E n \in 1..Len(values.val) : ~Hashable(values.val[n])
                   THEN Raise("TypeError")
                   ELSE Ok(OptionField(kwargs[<<"key">>],
                                       {values.val[n] : n \in 1..Len(values.val)}, optional))
              [] class_ = "Integer" ->
                   IF ~min_.ok THEN min_
                   ELSE IF ~max_.ok THEN max_
                   ELSE Ok(IntegerField(kwargs[<<"key">>], min_.val, max_.val, optional))
              [] class_ = "Text" -> Ok(TextField(kwargs[<<"key">>], optional))

\* FieldBase.from_json(json_repr)
FieldBase_from_json(json_repr) ==
    LET type_ == TypeOf(json_repr)
    IN IF ~type_.ok THEN type_
       ELSE IF type_.val # "Object" THEN Raise("ValueError")
       ELSE IF <<"type">> \notin DOMAIN json_repr.m THEN Raise("ValueError")
       ELSE IF ~Hashable(json_repr.m[<<"type">>]) THEN Raise("TypeError")
       ELSE IF ~(/\ json_repr.m[<<"type">>].t = "str"
                 /\ Len(json_repr.m[<<"type">>].s) = 1
                 /\ json_repr.m[<<"type">>].s[1] \in DOMAIN FieldParameters)
       THEN Raise("TypeError")
       ELSE FieldBase__make(json_repr.m[<<"type">>].s[1], json_repr)

RECURSIVE fields_from_json(_, _)
\* {name: FieldBase.from_json(json_field) for name, json_field in items}:
\* the first field that raises ends the comprehension
fields_from_json(json_fields, names) ==
    IF names = <<>> THEN Ok(<<>>)
    ELSE LET first == FieldBase_from_json(json_fields[Head(names)])
         IN IF ~first.ok THEN first
            ELSE LET others == fields_from_json(json_fields, Tail(names))
                 IN IF ~others.ok THEN others
                    ELSE Ok(<<[name |-> Head(names), val |-> first.val]>> \o others.val)

\* the entries of raw_data in iteration order: the items of an Array, the
\* values of an Object
raw_data_iter(raw_data) ==
    IF raw_data.t = "arr" THEN raw_data.e
    ELSE [n \in 1..Len(SetToSeq(DOMAIN raw_data.m)) |->
             raw_data.m[SetToSeq(DOMAIN raw_data.m)[n]]]

RECURSIVE Database_from_json_data(_)
\* the loop of Database.from_json over the entries: json.Type is asked of
\* every entry, an entry that is an Object is kept and any other entry that
\* has a JSON type is passed over with a warning
Database_from_json_data(entries) ==
    IF entries = <<>> THEN Ok(<<>>)
    ELSE LET type_ == TypeOf(Head(entries))
             others == Database_from_json_data(Tail(entries))
         IN IF ~type_.ok THEN type_
            ELSE IF ~others.ok THEN others
            ELSE IF type_.val # "Object" THEN others
            ELSE Ok(<<Head(entries)>> \o others.val)

\* Database.from_json(json_db): Ok([data, fields]) or what it raised
Database_from_json(json_db) ==
    LET type_db == TypeOf(json_db)
    IN IF ~type_db.ok THEN type_db
       ELSE IF type_db.val # "Object" THEN Raise("ValueError")
       ELSE IF <<"data">> \notin DOMAIN json_db.m THEN Raise("ValueError")
       ELSE IF <<"fields">> \notin DOMAIN json_db.m THEN Raise("ValueError")
       ELSE LET raw_data == json_db.m[<<"data">>]
                type_ == TypeOf(raw_data)
            IN IF ~type_.ok THEN type_
               ELSE IF type_.val \notin {"Array", "Object"} THEN Raise("ValueError")
               ELSE LET data_ == Database_from_json_data(raw_data_iter(raw_data))
                        json_fields == json_db.m[<<"fields">>]
                    IN IF ~data_.ok THEN data_
                       ELSE IF json_fields.t # "obj" THEN Raise("AttributeError")
                       ELSE LET fields_ == fields_from_json(json_fields.m,
                                                            SetToSeq(DOMAIN json_fields.m))
                            IN IF ~fields_.ok THEN fields_
                               ELSE Ok([data |-> data_.val, fields |-> fields_.val])

\* Database.to_json for a database whose field names are texts
Database_to_json(self_data, self_fields) ==
    JObj((<<"fields">> :> JObj([k \in Names(self_fields) |->
                                   FieldBase_to_json(Lookup(self_fields, k))]))
         @@ (<<"data">> :> JArr(self_data)))

-----------------------------------------------------------------------------
(* parsing.parse_file *)

RECURSIVE str_lt(_, _)
\* a < b for two texts of digits: Python compares texts character by
\* character, and a text that is a proper prefix of another is smaller
str_lt(a, b) ==
    IF b = <<>> THEN FALSE
    ELSE IF a = <<>> THEN TRUE
    ELSE IF Head(a) = Head(b) THEN str_lt(Tail(a), Tail(b))
    ELSE (CHOOSE d \in 1..10 : DigitChars[d] = Head(a))
         < (CHOOSE d \in 1..10 : DigitChars[d] = Head(b))

\* the version test of parse_file, lines 252-261, for the engine version
\* version.__version__: Ok(None) when the document is let through
parse_file_version(version___version__, json_file) ==
    IF <<"version">> \notin DOMAIN json_file.m \/ json_file.m[<<"version">>] = None
    THEN RaiseMsg("ValueError", "File has no version")
    ELSE IF json_file.m[<<"version">>].t # "str" THEN Raise("AttributeError")
    ELSE LET prog_ver == Split(version___version__, ".")
             json_ver == Split(json_file.m[<<"version">>].s, ".")
         IN IF prog_ver[1] # json_ver[1]
            THEN RaiseMsg("ValueError", "SAJE version cannot load format from version")
            ELSE IF Len(prog_ver) < 2 \/ Len(json_ver) < 2 THEN Raise("IndexError")
            ELSE IF str_lt(prog_ver[2].s, json_ver[2].s)
            THEN RaiseMsg("ValueError", "SAJE version cannot load format from version")
            ELSE Ok(None)

\* set.union(first) called on the class set: first has to be a set
set_union(first) == IF first.t = "set" THEN Ok(first) ELSE Raise("TypeError")

\* the construction of the ParsedFile, lines 267-276, once modes is known
ParsedFile(json_file, field_dict, field_geometry, modes) ==
    LET display_string == DisplayString_from_json(
                              IF <<"display_string">> \in DOMAIN json_file.m
                              THEN json_file.m[<<"display_string">>] ELSE None)
        fields_ == JObj([k \in {field_dict[n].name.s : n \in 1..Len(field_dict)} |->
                            (CHOOSE e \in {field_dict[n] : n \in 1..Len(field_dict)} :
                                 e.name.s = k).val.field_spec])
        database == IF <<"data">> \notin DOMAIN json_file.m THEN Raise("KeyError")
                    ELSE Database_from_json(
                             JObj((<<"fields">> :> fields_)
                                  @@ (<<"data">> :> json_file.m[<<"data">>])))
    IN IF ~display_string.ok THEN display_string
       ELSE IF ~database.ok THEN database
       ELSE Ok([name |-> IF <<"name">> \in DOMAIN json_file.m
                         THEN json_file.m[<<"name">>] ELSE JStr(<<"filename">>),
                display_string |-> display_string.val,
                gui_geometry |-> field_geometry,
                gui_datas |-> field_dict,
                database |-> database.val,
                modes |-> modes])

\* lines 265-276, once parse_nested_fields gave parsed
parse_file_fields(json_file, parsed) ==
    LET \* only the items of an Array can be field specifications
        left == IF json_file.m[<<"fields">>].t # "arr" THEN json_file
                ELSE JObj([json_file.m EXCEPT
                              ![<<"fields">>] = JArr(parsed.field_nested_list)])
        \* line 266 hands set.union a generator, not sets
        modes == set_union([t |-> "generator"])
    IN [json_file |-> left,
        ret |-> IF ~parsed.ret.ok THEN parsed.ret
                ELSE IF ~modes.ok THEN modes
                ELSE ParsedFile(left, parsed.field_dict, parsed.field_geometry, modes.val)]

\* parse_file(json_file, filename) under the engine version
\* version.__version__; the specifications under "fields" are changed in
\* place by the constructors, so the document is returned as it is left
parse_file(version___version__, json_file) ==
    LET checked == parse_file_version(version___version__, json_file)
        unchanged(exc) == [ret |-> exc, json_file |-> json_file]
    IN IF ~checked.ok THEN unchanged(checked)
       ELSE IF <<"fields">> \notin DOMAIN json_file.m THEN unchanged(Raise("KeyError"))
       ELSE IF ~IterItems(json_file.m[<<"fields">>]).ok THEN unchanged(Raise("TypeError"))
       ELSE parse_file_fields(json_file,
                              parse_nested_fields(<<>>, <<>>,
                                                  IterItems(json_file.m[<<"fields">>]).val))

-----------------------------------------------------------------------------
(* Specification of the parser: a document is parsed by parse_file, then
   parsed again; the list under "fields" is also parsed on its own by
   parse_nested_fields.  data holds the document object, args the engine
   version and the document as loaded, ret what the last call returned *)

VersionText(major, minor) == <<major, ".">> \o minor

\* engine versions (version.__version__ is "major.minor.patch")
EngineVersions ==
    {VersionText("1", <<"2">>) \o <<".", "0">>,
     VersionText("1", <<"9">>) \o <<".", "0">>,
     VersionText("1", <<"1", "0">>) \o <<".", "0">>}

\* what a document holds under "version", when it holds anything
DocumentVersions ==
    {JStr(VersionText(major, minor)) :
        major \in {"1", "2"},
        minor \in {<<"0">>, <<"2">>, <<"9">>, <<"1", "0">>, <<"1", "1">>}}
    \cup {JStr(<<"1">>), JInt(1), None}

\* field specifications
SpecOf(type_, name) ==
    (<<"type">> :> JStr(<<type_>>)) @@ (<<"name">> :> JStr(<<name>>))
    @@ (<<"key">> :> JStr(<<"a">>))
ModeM == JStr(<<"m">>)
ModeN == JStr(<<"n">>)
FieldSpecs ==
    {JObj(SpecOf("Option", "f") @@ (<<"values">> :> JArr(<<StrA>>))
          @@ (<<"modes">> :> ModeM)),
     JObj(SpecOf("Option", "g") @@ (<<"operator">> :> JStr(<<"And">>))),
     JObj(SpecOf("Integer", "f") @@ (<<"modes">> :> JArr(<<ModeM, ModeN>>))
          @@ (<<"min">> :> JInt(0)) @@ (<<"listed">> :> JArr(<<JInt(1), JInt(2)>>))),
     JObj(SpecOf("Text", "g") @@ (<<"optional">> :> JBool(FALSE))),
     JObj(SpecOf("Text", "h") @@ (<<"modes">> :> JArr(<<>>)))}
\* specifications no constructor takes, and elements that are no
\* specification
BadSpecs ==
    {JObj(SpecOf("bogus", "f")),
     JObj(SpecOf("Option", "g") @@ (<<"operator">> :> JStr(<<"xor">>))),
     JObj(<<"type">> :> JStr(<<"Text">>))}
FieldElements == FieldSpecs \cup BadSpecs \cup {JStr(<<"junk">>)}

\* lists of at most MaxArrayLen elements, and lists with one or two levels
\* of nesting
NestedLists ==
    LET flat == SeqsUpTo(FieldElements, MaxArrayLen)
    IN flat
       \cup {<<JArr(inner)>> \o outer : inner \in SeqsUpTo(FieldSpecs, 1), outer \in SeqsUpTo(FieldSpecs, 1)}
       \cup {outer \o <<JArr(<<JArr(inner)>>)>> : inner \in SeqsUpTo(FieldSpecs, 1), outer \in SeqsUpTo(FieldSpecs, 1)}

DocumentOf(version_, fields_) ==
    JObj((IF version_ = MISSING THEN EmptyMap ELSE <<"version">> :> version_)
         @@ (<<"fields">> :> JArr(fields_))
         @@ (<<"data">> :> JArr(<<JObj(<<"a">> :> StrA)>>)))

\* every version with two lists of fields, every list of fields with one
\* version
Documents ==
    {DocumentOf(v, f) : v \in DocumentVersions \cup {MISSING},
                        f \in {<<>>, <<CHOOSE s \in FieldSpecs : TRUE>>}}
    \cup {DocumentOf(JStr(VersionText("1", <<"2">>)), f) : f \in NestedLists}

InitParse ==
    /\ data \in Documents
    /\ fields = <<>>
    /\ pc = "idle"
    /\ args \in {[version |-> v, json_file |-> data] : v \in EngineVersions}
    /\ ret = None

\* parse_file(json_file, filename), on a document just loaded and once
\* more on the same document object
ParseFile ==
    /\ pc \in {"idle", "parse_file"}
    /\ pc' = IF pc = "idle" THEN "parse_file" ELSE "parse_file again"
    /\ \E out \in {parse_file(args.version, data)} :
          /\ data' = out.json_file
          /\ ret' = out.ret
    /\ UNCHANGED <<fields, args>>

\* parse_nested_fields(field_dict={}, field_geometry=[],
\* field_nested_list=json_file["fields"]) on a document just loaded
ParseNestedFields ==
    /\ pc = "idle"
    /\ pc' = "parse_nested_fields"
    /\ \E out \in {parse_nested_fields(<<>>, <<>>, data.m[<<"fields">>].e)} :
          /\ data' = JObj([data.m EXCEPT ![<<"fields">>] = JArr(out.field_nested_list)])
          /\ ret' = out.ret
    /\ UNCHANGED <<fields, args>>

NextParse == ParseFile \/ ParseNestedFields

SpecParse == InitParse /\ [][NextParse]_vars

\* the two errors of the version test
VersionErrors ==
    {RaiseMsg("ValueError", "File has no version"),
     RaiseMsg("ValueError", "SAJE version cannot load format from version")}

\* the document holds a version "major.minor" made of digits
WellFormedVersion(json_file) ==
    /\ <<"version">> \in DOMAIN json_file.m
    /\ json_file.m[<<"version">>].t = "str"
    /\ Len(Split(json_file.m[<<"version">>].s, ".")) = 2

\* C23: parse_file lets a document through the version test exactly when
\* the document's major equals the engine's and the engine's minor, as an
\* integer, is >= the document's minor; otherwise, and when the document
\* has no version, it fails with the version error, the fields not parsed.
C23_VersionAccepted ==
    pc = "parse_file" =>
        /\ <<"version">> \notin DOMAIN args.json_file.m =>
              ret = RaiseMsg("ValueError", "File has no version") /\ data = args.json_file
        /\ WellFormedVersion(args.json_file) =>
              LET prog_ver == Split(args.version, ".")
                  json_ver == Split(args.json_file.m[<<"version">>].s, ".")
                  compatible == /\ prog_ver[1] = json_ver[1]
                                /\ NatOf(prog_ver[2].s) >= NatOf(json_ver[2].s)
              IN /\ compatible <=> ret \notin VersionErrors
                 /\ ~compatible => data = args.json_file

RECURSIVE SpecsIn(_)
\* the field specifications of a nested list, in document order
SpecsIn(list) ==
    IF list = <<>> THEN <<>>
    ELSE (CASE Head(list).t = "arr" -> SpecsIn(Head(list).e)
            [] Head(list).t = "obj" -> <<Head(list)>>
            [] OTHER -> <<>>) \o SpecsIn(Tail(list))

RECURSIVE LayoutOf(_)
\* the layout a nested list asks for: the name of each specification at the
\* place of the specification, a list for each nested list
LayoutOf(list) ==
    IF list = <<>> THEN <<>>
    ELSE (CASE Head(list).t = "arr" -> <<JArr(LayoutOf(Head(list).e))>>
            [] Head(list).t = "obj" -> <<Head(list).m[<<"name">>]>>
            [] OTHER -> <<>>) \o LayoutOf(Tail(list))

RECURSIVE NamesIn(_)
\* the names of a layout, in order
NamesIn(geometry) ==
    IF geometry = <<>> THEN <<>>
    ELSE (IF Head(geometry).t = "arr" THEN NamesIn(Head(geometry).e) ELSE <<Head(geometry)>>)
         \o NamesIn(Tail(geometry))

FieldsList == args.json_file.m[<<"fields">>].e

\* two specifications of the list have the same name
DuplicatedName ==
    \E m, n \in 1..Len(SpecsIn(FieldsList)) :
        /\ m # n
        /\ <<"name">> \in DOMAIN SpecsIn(FieldsList)[m].m
        /\ <<"name">> \in DOMAIN SpecsIn(FieldsList)[n].m
        /\ SpecsIn(FieldsList)[m].m[<<"name">>] = SpecsIn(FieldsList)[n].m[<<"name">>]

\* every specification of the list is one a constructor takes
AllSpecsValid ==
    \A n \in 1..Len(SpecsIn(FieldsList)) : SpecsIn(FieldsList)[n] \in FieldSpecs

\* when parse_nested_fields returned: each name once in the layout, at the
\* place of its specification, and the names of the layout are the keys of
\* the field map
LayoutMatches ==
    ret.ok =>
        /\ ret.val[2] = LayoutOf(FieldsList)
        /\ \A m, n \in 1..Len(NamesIn(ret.val[2])) :
              m # n => NamesIn(ret.val[2])[m] # NamesIn(ret.val[2])[n]
        /\ {NamesIn(ret.val[2])[n] : n \in 1..Len(NamesIn(ret.val[2]))} = Names(ret.val[1])

\* C24: parsing the nested list fails with the duplicate-name error
\* whenever two field specifications anywhere in it, at the same or at
\* different nesting levels, have the same name; a list without such a pair
\* is parsed, and then the layout holds each name once, at the place of its
\* specification, the names being the keys of the field map.  (Field
\* specifications are those a constructor takes; an element no constructor
\* takes fails with its own error where it is met.)
C24_DuplicateReported ==
    pc = "parse_nested_fields" =>
        /\ (AllSpecsValid /\ DuplicatedName) =>
              ret = RaiseMsg("ValueError", "Duplicated field name")
        /\ (AllSpecsValid /\ ~DuplicatedName) => ret.ok
        /\ LayoutMatches

\* two valid specifications of the same name at different nesting levels
C24_Witness ==
    /\ pc = "parse_nested_fields"
    /\ AllSpecsValid
    /\ DuplicatedName
    /\ \E n \in 1..Len(FieldsList) : FieldsList[n].t = "arr"
    /\ ret = RaiseMsg("ValueError", "Duplicated field name")

\* the document is one parse_file has to take: a version the engine is
\* compatible with and valid specifications of distinct names
ValidDocument ==
    /\ WellFormedVersion(args.json_file)
    /\ Split(args.version, ".")[1] = Split(args.json_file.m[<<"version">>].s, ".")[1]
    /\ NatOf(Split(args.version, ".")[2].s)
          >= NatOf(Split(args.json_file.m[<<"version">>].s, ".")[2].s)
    /\ AllSpecsValid
    /\ ~DuplicatedName

\* the mode tags a specification declares
DeclaredModes(spec) ==
    IF <<"modes">> \notin DOMAIN spec.m THEN {}
    ELSE IF spec.m[<<"modes">>].t = "arr"
    THEN {spec.m[<<"modes">>].e[n] : n \in 1..Len(spec.m[<<"modes">>].e)}
    ELSE {spec.m[<<"modes">>]}

\* C25: for every valid document parse_file returns a ParsedFile whose
\* modes is the union of the mode tags declared by the field
\* specifications, a single tag counting as a one-element set and a
\* specification without modes adding nothing.
C25_ModesUnion ==
    (pc = "parse_file" /\ ValidDocument) =>
        /\ ret.ok
        /\ ret.val.modes =
              PySet(UNION {DeclaredModes(SpecsIn(FieldsList)[n]) :
                              n \in 1..Len(SpecsIn(FieldsList))})

-----------------------------------------------------------------------------
(* Specification of the JSON form of a database: a JSON document is loaded
   by Database.from_json, and a database is written by to_json and loaded
   again.  data and fields hold the database, args the document loaded, ret
   what from_json returned *)

\* the entries of a data member
LoadEntries ==
    {JObj(<<"a">> :> StrX), JObj(EmptyMap), StrX, JInt(1), JArr(<<JObj(<<"a">> :> StrX)>>), None}

\* the data member: Arrays and Objects of entries, and other shapes
LoadData ==
    {JArr(e) : e \in SeqsUpTo(LoadEntries, MaxRecords)}
    \cup {JObj(m) : m \in MapsOver({<<"r">>, <<"s">>}, LoadEntries)}
    \cup {StrX, JInt(1), JBool(TRUE), None}

LoadJsonFields ==
    {JObj(EmptyMap),
     JObj(<<"f">> :> JObj((<<"type">> :> JStr(<<"Text">>)) @@ (<<"key">> :> JStr(<<"a">>))))}

LoadDocuments ==
    {JObj((<<"fields">> :> f) @@ (<<"data">> :> d)) : f \in LoadJsonFields, d \in LoadData}

\* the fields of a database that is written and loaded again
LoadFields ==
    {OptionField(JStr(<<"a">>), {StrX, StrY}, o) : o \in BOOLEAN}
    \cup {IntegerField(JStr(<<"b">>), mn, mx, o) :
             mn \in {None, JInt(0)}, mx \in {None, JInt(10)}, o \in BOOLEAN}
    \cup {TextField(JStr(<<"c">>), o) : o \in BOOLEAN}

LoadFieldMaps ==
    {<<[name |-> <<"f">>, val |-> F]>> : F \in LoadFields}
    \cup {<<[name |-> <<"f">>, val |-> F], [name |-> <<"g">>, val |-> G]>> :
             F \in LoadFields, G \in LoadFields}

InitLoad ==
    /\ pc = "idle"
    /\ ret = None
    /\ \/ /\ args \in {[json_db |-> d] : d \in LoadDocuments}
          /\ data = <<>>
          /\ fields = <<>>
       \/ /\ args = None
          /\ data \in {<<>>, <<JObj(<<"a">> :> StrX)>>}
          /\ fields \in LoadFieldMaps

\* database = Database.from_json(json_db)
Load ==
    /\ pc = "idle"
    /\ args # None
    /\ pc' = "from_json"
    /\ \E loaded \in {Database_from_json(args.json_db)} :
          /\ ret' = loaded
          /\ data' = IF loaded.ok THEN loaded.val.data ELSE data
          /\ fields' = IF loaded.ok THEN loaded.val.fields ELSE fields
    /\ UNCHANGED args

\* Database.from_json(database.to_json())
Reload ==
    /\ pc = "idle"
    /\ args = None
    /\ pc' = "reload"
    /\ args' = [json_db |-> Database_to_json(data, fields)]
    /\ ret' = Database_from_json(Database_to_json(data, fields))
    /\ UNCHANGED <<data, fields>>

NextLoad == Load \/ Reload

SpecLoad == InitLoad /\ [][NextLoad]_vars

\* the entries of the data member that are Objects, in the order of the
\* data member
ObjectEntries(entries) == SelectSeq(entries, LAMBDA e : e.t = "obj")

\* C26: Database.from_json takes data that is an Array or an Object and
\* rejects every other shape; it keeps exactly the entries that are
\* Objects, in input order, and passes over every other entry, whatever it
\* is, without raising.
C26_KeepsObjects ==
    pc = "from_json" =>
        LET raw_data == args.json_db.m[<<"data">>]
        IN IF raw_data.t \in {"arr", "obj"}
           THEN ret.ok /\ ret.val.data = ObjectEntries(raw_data_iter(raw_data))
           ELSE ~ret.ok

\* C27: parse_file leaves the document it is given unchanged (no key of a
\* field spec removed or altered), and parsing the same document object a
\* second time gives the result of the first parse.
C27_DocumentUnchanged ==
    /\ pc \in {"parse_file", "parse_file again"} => data = args.json_file
    /\ pc = "parse_file again" =>
           ret = parse_file(args.version, args.json_file).ret

-----------------------------------------------------------------------------
(* Specification of a database in use: its records are searched and        *)
(* rendered in any order                                                    *)

\* the fields of the database; the last two read the reserved key
MixFields ==
    {OptionField(KeyType, {StrA, StrZ}, TRUE),
     OptionField(KeyType, {StrA}, FALSE),
     TextField(KeyTags, TRUE),
     IntegerField(JStr(CACHE_KEY), JInt(0), JInt(2), TRUE),
     IntegerField(JStr(CACHE_KEY), JInt(0), JInt(2), FALSE)}

MixFieldMaps == {<<[name |-> "f", val |-> F]>> : F \in MixFields}

\* the records as loaded; the last holds the reserved key as data
MixRecords ==
    {JObj(<<"type">> :> StrA),
     JObj(<<"type">> :> StrZ),
     JObj((<<"type">> :> StrA) @@ (CACHE_KEY :> JStr(Text(<<"Alpha">>))))}

MixTemplates ==
    {DefaultDS, DisplayString_from_json(LitType).val, DisplayString_from_json(LitMissing).val}

MixKwargs ==
    {[valid_values |-> StrA],
     [valid_values |-> StrZ, accept_missing |-> JBool(FALSE)],
     [value |-> JInt(1)]}

MixCriteria == {<<>>} \cup {<<[name |-> "f", val |-> k]>> : k \in MixKwargs}

InitMix ==
    /\ data \in SeqsUpTo(MixRecords, MaxRecords)
    /\ fields \in MixFieldMaps
    /\ pc = "idle"
    /\ args = [data |-> data, fields |-> fields, call |-> None]
    /\ ret = None

\* results = database.search(criteria, operator)
MixSearch ==
    /\ pc = "idle"
    /\ pc' = "search"
    /\ \E criteria \in MixCriteria, operator \in {"and", "or"} :
          /\ args' = [args EXCEPT !.call = [criteria |-> criteria, operator |-> operator]]
          /\ ret' = Database_search(data, fields, criteria, operator)
    /\ UNCHANGED <<data, fields>>

\* get_display(display_string, database.data[n])
MixRender ==
    /\ pc = "idle"
    /\ pc' = "get_display"
    /\ \E n \in 1..Len(data), display_string \in MixTemplates :
       \E out \in {get_display(display_string, data[n])} :
          /\ data' = [data EXCEPT ![n] = out.json_obj]
          /\ ret' = out.text
          /\ args' = [args EXCEPT !.call = [display_string |-> display_string, n |-> n]]
    /\ UNCHANGED fields

\* the caller takes the outcome and is ready for the next call
MixReturn ==
    /\ pc \in {"search", "get_display"}
    /\ pc' = "idle"
    /\ args' = [args EXCEPT !.call = None]
    /\ ret' = None
    /\ UNCHANGED <<data, fields>>

NextMix == MixSearch \/ MixRender \/ MixReturn

SpecMix == InitMix /\ [][NextMix]_vars

\* new is old, or old with the reserved key added
OnlyCacheAdded(new, old) ==
    \/ new = old
    \/ /\ CACHE_KEY \notin DOMAIN old.m
       /\ DOMAIN new.m = DOMAIN old.m \cup {CACHE_KEY}
       /\ new.m[CACHE_KEY].t = "str"
       /\ \A k \in DOMAIN old.m : new.m[k] = old.m[k]

\* the same outcome, record for record, up to the reserved key
SameRecords(new, old) ==
    IF old.ok
    THEN /\ new.ok
         /\ Len(new.val) = Len(old.val)
         /\ \A n \in 1..Len(old.val) : OnlyCacheAdded(new.val[n], old.val[n])
    ELSE new = old

\* no field of the database reads the reserved key
NoReservedField(self_fields) ==
    \A n \in 1..Len(self_fields) : self_fields[n].val.key # JStr(CACHE_KEY)

\* C28: after any interleaving of search and get_display, the fields are
\* those loaded, every record is the one loaded with at most the reserved
\* key added, and, when no field's key is the reserved key, search returns
\* the records it returns on the database as loaded.
C28_SearchUnaffected ==
    /\ fields = args.fields
    /\ Len(data) = Len(args.data)
    /\ \A n \in 1..Len(data) : OnlyCacheAdded(data[n], args.data[n])
    /\ (pc = "search" /\ NoReservedField(fields)) =>
           SameRecords(ret, Database_search(args.data, args.fields,
                                            args.call.criteria, args.call.operator))

\* a search that returns a record rendered before, among records not rendered
C28_Witness ==
    /\ pc = "search"
    /\ NoReservedField(fields)
    /\ args.call.criteria # <<>>
    /\ ret.ok
    /\ \E n \in 1..Len(ret.val) : CACHE_KEY \in DOMAIN ret.val[n].m
    /\ \E n \in 1..Len(data) : data[n] # args.data[n]
    /\ \E n \in 1..Len(data) : CACHE_KEY \notin DOMAIN data[n].m

\* C29: a database serialised and loaded again has, under every name, a
\* field of the same variant with the same key, the same optional flag and
\* the same values / min / max.
C29_FieldsRoundTrip ==
    pc = "reload" => (ret.ok /\ ret.val.fields = fields)

AllOptional(self_fields) == \A n \in 1..Len(self_fields) : self_fields[n].val.optional

\* C30: on a database whose fields are all optional, search with an empty
\* criteria map and the operator OR returns no record at all.
C30_EmptyOrReturnsNothing ==
    (/\ pc = "search"
     /\ args.criteria = <<>>
     /\ OperatorOf(args.operator) = Ok("OR")
     /\ AllOptional(fields)) => ret = Ok(<<>>)

\* the empty OR search of a database that holds two records, and both fields
\* of which are optional
C30_Witness ==
    /\ pc = "search"
    /\ args.criteria = <<>>
    /\ args.operator = "or"
    /\ Len(fields) = 2
    /\ AllOptional(fields)
    /\ Len(data) = 2
    /\ ret = Ok(<<>>)

====
